---------------------------- MODULE Spec2Model ----------------------------
(***************************************************************************)
(* Model of the zubax_chibios bootloader controller (os::bootloader::      *)
(* Bootloader), its download sink, the application descriptor scanner and  *)
(* the CRC-64-WE it relies on, run by the two tasks of the system against  *)
(* an application storage backend.                                         *)
(***************************************************************************)
EXTENDS Integers, Sequences, FiniteSets, TLC

(***************************************************************************)
(* Bounds of the model.                                                    *)
(***************************************************************************)
\* Largest value the system tick counter takes in the model.
MaxTime == 10
\* Largest number of chunks one download hands to the sink.
MaxChunks == 2

(***************************************************************************)
(* Program constants.                                                      *)
(***************************************************************************)
ErrOK == 0
ErrInvalidState == 10001
ErrAppImageTooLarge == 10002
ErrAppStorageWriteFailure == 10003
\* sizeof(rom_buffer_)
RomBufferSize == 1024
\* AppDescriptor::ImagePaddingBytes
ImagePaddingBytes == 8
\* Step of the descriptor walk, and the size of the signature.
Step == 8
\* sizeof(AppDescriptor)
DescriptorSize == 32
\* System tick frequency, Hz.
CH_CFG_ST_FREQUENCY == 10000

(***************************************************************************)
(* CRC-64-WE.  A 64-bit value is the sequence of its 8 bytes, the most     *)
(* significant first.                                                      *)
(***************************************************************************)
\* Bit k of the byte b.
BitOf(b, k) == (b \div (2 ^ k)) % 2

\* a ^ b, of two bytes
Xor8(a, b) ==
    LET x(k) == IF BitOf(a, k) = BitOf(b, k) THEN 0 ELSE 2 ^ k
    IN  x(0) + x(1) + x(2) + x(3) + x(4) + x(5) + x(6) + x(7)

\* Poly = 0x42F0E1EBA9EA3693
Poly == << 66, 240, 225, 235, 169, 234, 54, 147 >>

\* x ^ Poly, byte by byte: XorPoly[k][x] is x ^ (byte k of Poly)
XorPoly == [k \in 1..8 |-> [x \in 0..255 |-> Xor8(x, Poly[k])]]

\* crc_ = 0xFFFFFFFFFFFFFFFF
CrcInit == << 255, 255, 255, 255, 255, 255, 255, 255 >>

\* (c << 1) modulo 2^64
ShiftLeft(c) ==
    << ((2 * c[1]) % 256) + (c[2] \div 128), ((2 * c[2]) % 256) + (c[3] \div 128),
       ((2 * c[3]) % 256) + (c[4] \div 128), ((2 * c[4]) % 256) + (c[5] \div 128),
       ((2 * c[5]) % 256) + (c[6] \div 128), ((2 * c[6]) % 256) + (c[7] \div 128),
       ((2 * c[7]) % 256) + (c[8] \div 128), (2 * c[8]) % 256 >>

\* s ^ Poly
XorWithPoly(s) ==
    << XorPoly[1][s[1]], XorPoly[2][s[2]], XorPoly[3][s[3]], XorPoly[4][s[4]],
       XorPoly[5][s[5]], XorPoly[6][s[6]], XorPoly[7][s[7]], XorPoly[8][s[8]] >>

\* crc_ = (crc_ & Mask) ? (crc_ << 1) ^ Poly : crc_ << 1
CrcShift(c) == IF c[1] >= 128 THEN XorWithPoly(ShiftLeft(c)) ELSE ShiftLeft(c)

\* The element of a set of one element.  An intermediate value x of a
\* computation is bound as x \in {v} so that it is computed once.
Only(S) == CHOOSE x \in S : TRUE

\* crc_ ^= uint64(byte) << 56, then the eight unrolled shifts.
CrcAddByte(c, b) ==
    LET Shifted(S) == {CrcShift(x) : x \in S}
    IN  Only(Shifted(Shifted(Shifted(Shifted(Shifted(Shifted(Shifted(Shifted(
            {<< Xor8(c[1], b), c[2], c[3], c[4], c[5], c[6], c[7], c[8] >>})))))))))

RECURSIVE CrcAddRange(_, _, _, _)
\* The rounds of the loop of CRC64WE::add() for the bytes first..last, in
\* order: those of the first half of the range, then those of the second.
CrcAddRange(c, bytes, first, last) ==
    IF first > last THEN c
    ELSE IF first = last THEN CrcAddByte(c, bytes[first])
    ELSE Only({CrcAddRange(half, bytes, (first + last) \div 2 + 1, last) :
                half \in {CrcAddRange(c, bytes, first, (first + last) \div 2)}})

\* Variant of add() that starts from the initial value at every call.
CrcAddRestarting(c, bytes) ==
    Only({CrcAddRange(CrcInit, data, 1, Len(data)) : data \in {bytes}})

\* CRC64WE::add(data, len)
CrcAdd(c, bytes) ==
    Only({CrcAddRange(crc_, data, 1, Len(data)) : crc_ \in {c}, data \in {bytes}})

\* CRC64WE::get(): crc_ ^ 0xFFFFFFFFFFFFFFFF
CrcGet(c) ==
    << 255 - c[1], 255 - c[2], 255 - c[3], 255 - c[4],
       255 - c[5], 255 - c[6], 255 - c[7], 255 - c[8] >>

\* The 8 bytes of a 64-bit value as stored in memory (little-endian).
U64Bytes(v) == << v[8], v[7], v[6], v[5], v[4], v[3], v[2], v[1] >>

\* The 64-bit value stored in 8 bytes of memory (little-endian).
BytesU64(b) == << b[8], b[7], b[6], b[5], b[4], b[3], b[2], b[1] >>

(***************************************************************************)
(* The application storage backend (IAppStorageBackend) is a byte memory   *)
(* of StorageSize bytes; a byte sequence is a sequence of 0..255.          *)
(***************************************************************************)
Min(a, b) == IF a <= b THEN a ELSE b

\* The value of an erased byte of the storage.
ErasedByte == 2 ^ 8 - 1

\* The bytes a read of size bytes at offset returns; their number is the
\* result of IAppStorageBackend::read() (short at the end of the storage).
BackendRead(st, offset, size) == SubSeq(st, offset + 1, Min(offset + size, Len(st)))

\* The storage after the bytes of data are stored at offset.
BackendStore(st, offset, data) ==
    SubSeq(st, 1, offset) \o data \o SubSeq(st, offset + Len(data) + 1, Len(st))

RECURSIVE Erased(_)
\* n erased bytes.
Erased(n) ==
    IF n = 0 THEN << >>
    ELSE IF n = 1 THEN << ErasedByte >>
    ELSE Erased(n \div 2) \o Erased(n - n \div 2)

\* The storage after the backend erased it.
BackendErase(st) == Erased(Len(st))

(***************************************************************************)
(* AppDescriptor and the descriptor scan.                                  *)
(***************************************************************************)
\* AppDescriptor::getSignatureValue(): 'A','P','D','e','s','c','0','0'
Signature == << 65, 80, 68, 101, 115, 99, 48, 48 >>

\* A little-endian uint32 below 2^31 as a number.
U32LE(b) == b[1] + 256 * b[2] + 65536 * b[3] + 16777216 * b[4]

\* The fields of the packed AppDescriptor held in 32 bytes.
DescSignature(desc) == SubSeq(desc, 1, 8)
DescImageCrc(desc) == SubSeq(desc, 9, 16)
DescImageSize(desc) == SubSeq(desc, 17, 20)

\* desc.app_info: image_size is a number once the descriptor is valid.
DescAppInfo(desc) ==
    [image_crc     |-> DescImageCrc(desc),
     image_size    |-> U32LE(DescImageSize(desc)),
     vcs_commit    |-> SubSeq(desc, 21, 24),
     major_version |-> desc[25],
     minor_version |-> desc[26]]

\* AppDescriptor::isValid(max_application_image_size); the maximum is below
\* 2^31, so a size with the top bit set is above it.
IsValid(desc, max_application_image_size) ==
    LET size == DescImageSize(desc) IN
    /\ DescSignature(desc) = Signature
    /\ \E k \in 1..4 : size[k] > 0
    /\ size[4] < 128
    /\ U32LE(size) <= max_application_image_size
    /\ U32LE(size) % ImagePaddingBytes = 0

RECURSIVE CrcReadLoop(_, _, _, _)
\* for (i = from; i < to;) { res = read(i, rom_buffer_, min(sizeof(rom_buffer_), to - i));
\*                           if (res > 0) { i += res; crc.add(rom_buffer_, res); } else break; }
CrcReadLoop(st, c, i, to) ==
    IF i >= to THEN c
    ELSE LET chunk == BackendRead(st, i, Min(RomBufferSize, to - i))
         IN  IF Len(chunk) > 0
             THEN CrcReadLoop(st, CrcAdd(c, chunk), i + Len(chunk), to)
             ELSE c

\* The CRC the scan computes for a valid descriptor found at offset.
ComputedImageCrc(st, offset, image_size) ==
    LET crc_offset == offset + 8
        head   == CrcReadLoop(st, CrcInit, 0, crc_offset)
        zeroed == CrcAdd(head, << 0, 0, 0, 0, 0, 0, 0, 0 >>)
        rest   == CrcReadLoop(st, zeroed, crc_offset + 8, image_size)
    IN  CrcGet(rest)

RECURSIVE LocateFrom(_, _, _)
\* The body of the loop of locateAppDescriptor() from offset on.
LocateFrom(st, max_application_image_size, offset) ==
    LET signature == BackendRead(st, offset, Step)
        desc      == BackendRead(st, offset, DescriptorSize)
        next      == LocateFrom(st, max_application_image_size, offset + Step)
    IN  IF Len(signature) # Step THEN [second |-> FALSE]
        ELSE IF signature # Signature THEN next
        ELSE IF Len(desc) # DescriptorSize THEN [second |-> FALSE]
        ELSE IF ~IsValid(desc, max_application_image_size) THEN next
        ELSE IF ComputedImageCrc(st, offset, U32LE(DescImageSize(desc)))
                    # BytesU64(DescImageCrc(desc)) THEN next
        ELSE [second |-> TRUE, first |-> DescAppInfo(desc), offset |-> offset]

\* Bootloader::locateAppDescriptor()
locateAppDescriptor(st, max_application_image_size) ==
    LocateFrom(st, max_application_image_size, 0)

(***************************************************************************)
(* Inputs of the model: the images a downloader delivers, the storage      *)
(* contents at power-up, the results the backend and the downloader give.  *)
(***************************************************************************)
\* A 32-byte image that is its own descriptor, with the given image_crc field
\* and vcs_commit byte.
DescriptorImage(image_crc, vcs) ==
    Signature \o image_crc \o << DescriptorSize, 0, 0, 0 >> \o << vcs, 0, 0, 0 >>
        \o << 1, 2 >> \o << 0, 0, 0, 0, 0, 0 >>

ZeroCrcField == << 0, 0, 0, 0, 0, 0, 0, 0 >>

\* An authentic image: image_crc is the CRC of the image with the field zeroed.
GoodImage ==
    DescriptorImage(U64Bytes(CrcGet(CrcAdd(CrcInit, DescriptorImage(ZeroCrcField, 7)))), 7)

\* The same image with one byte changed after the CRC was computed.
BadImage ==
    DescriptorImage(U64Bytes(CrcGet(CrcAdd(CrcInit, DescriptorImage(ZeroCrcField, 7)))), 9)

\* Eight bytes of padding.
Padding == << 0, 0, 0, 0, 0, 0, 0, 0 >>

\* The chunks a downloader hands to the sink.
Chunks == {GoodImage, BadImage, Padding}

\* Capacity of the storage backend, bytes.
StorageSize == 48

\* max_application_image_size given to the constructor.
MaxImageSize == 40

max_application_image_size_ == MaxImageSize

\* boot_delay_msec values given to the constructor (0 is the default).
BootDelays == {0, 1}

BlankStorage == Erased(StorageSize)

\* The storage contents the controller may be constructed on.
InitialStorages == {BlankStorage, BackendStore(BlankStorage, 0, GoodImage)}

\* Results of IAppStorageBackend::beginUpgrade(), endUpgrade() (0, or negative)
\* and the results of IDownloader::download() of its own.
BeginResults == {0, -11}
EndResults == {0, -13}
DownloadResults == {0, -20}

\* The results backend_.write() may give for size bytes: all written, an
\* error with nothing written, or a part written.
WriteResults(size) == {size, -12, size \div 2}

\* The bytes of data the backend has stored when write() returns r.
Written(data, r) == IF r > 0 THEN SubSeq(data, 1, r) ELSE << >>

\* The clock advances by half a millisecond at a time.
TickQuantum == CH_CFG_ST_FREQUENCY \div 2000

(***************************************************************************)
(* The configuration store (config.cpp): float values, the CRC-32 of the   *)
(* store, the registered parameters and the validity of a value.           *)
(***************************************************************************)
\* A float that is a whole number of halves; nanf(""); the float held by four
\* erased bytes (a NaN); +infinity.
F(halves) == [class |-> "finite", halves |-> halves]
NaN == [class |-> "nan", halves |-> 0]
ErasedFloat == [class |-> "nan", halves |-> -1]
PosInf == [class |-> "inf", halves |-> 1]

\* std::isfinite(value)
isfinite(value) == value.class = "finite"

\* std::abs(value), in halves, of a finite value.
AbsHalves(value) == IF value.halves < 0 THEN -value.halves ELSE value.halves

RECURSIVE Log2(_)
\* The position of the highest set bit of n > 0.
Log2(n) == IF n < 2 THEN 0 ELSE 1 + Log2(n \div 2)

\* The exponent field and the mantissa of the IEEE 754 single of a halves.
FloatExponent(a) == Log2(a) + 126
FloatMantissa(a) ==
    IF Log2(a) <= 23 THEN (a - 2 ^ Log2(a)) * 2 ^ (23 - Log2(a))
    ELSE (a - 2 ^ Log2(a)) \div 2 ^ (Log2(a) - 23)

\* The four bytes of a float in memory (IEEE 754 single, little-endian).
FloatBytes(value) ==
    IF value = NaN THEN << 0, 0, 192, 127 >>
    ELSE IF value = ErasedFloat THEN << 255, 255, 255, 255 >>
    ELSE IF value = PosInf THEN << 0, 0, 128, 127 >>
    ELSE IF value.halves = 0 THEN << 0, 0, 0, 0 >>
    ELSE << FloatMantissa(AbsHalves(value)) % 256,
            (FloatMantissa(AbsHalves(value)) \div 256) % 256,
            (FloatExponent(AbsHalves(value)) % 2) * 128
                + FloatMantissa(AbsHalves(value)) \div 65536,
            (IF value.halves < 0 THEN 128 ELSE 0) + FloatExponent(AbsHalves(value)) \div 2 >>

RECURSIVE PoolBytes(_)
\* The bytes of a value pool in memory.
PoolBytes(pool) ==
    IF pool = << >> THEN << >> ELSE FloatBytes(Head(pool)) \o PoolBytes(Tail(pool))

\* 0xEDB88320, and x ^ (byte k of it) for every byte x; a 32-bit value is its
\* four bytes, most significant first.
Crc32Poly == << 237, 184, 131, 32 >>
XorCrc32Poly == [k \in 1..4 |-> [x \in 0..255 |-> Xor8(x, Crc32Poly[k])]]

\* crc = (crc >> 1) ^ (0xEDB88320 & -(crc & 1))
Crc32Shift(c) ==
    IF c[4] % 2 = 1
    THEN << XorCrc32Poly[1][c[1] \div 2],
            XorCrc32Poly[2][(c[1] % 2) * 128 + c[2] \div 2],
            XorCrc32Poly[3][(c[2] % 2) * 128 + c[3] \div 2],
            XorCrc32Poly[4][(c[3] % 2) * 128 + c[4] \div 2] >>
    ELSE << c[1] \div 2, (c[1] % 2) * 128 + c[2] \div 2,
            (c[2] % 2) * 128 + c[3] \div 2, (c[3] % 2) * 128 + c[4] \div 2 >>

\* crc32_step(crc, new_byte)
crc32_step(crc, new_byte) ==
    LET Shifted(S) == {Crc32Shift(x) : x \in S}
    IN  Only(Shifted(Shifted(Shifted(Shifted(Shifted(Shifted(Shifted(Shifted(
            {<< crc[1], crc[2], crc[3], Xor8(crc[4], new_byte) >>})))))))))

RECURSIVE Crc32Range(_, _, _, _)
\* The rounds of a loop of crc32_step() over the bytes first..last, in order.
Crc32Range(crc, bytes, first, last) ==
    IF first > last THEN crc
    ELSE IF first = last THEN crc32_step(crc, bytes[first])
    ELSE Only({Crc32Range(half, bytes, (first + last) \div 2 + 1, last) :
                half \in {Crc32Range(crc, bytes, first, (first + last) \div 2)}})

Crc32Zero == << 0, 0, 0, 0 >>

\* crc32(data, len)
crc32(bytes) == Only({Crc32Range(Crc32Zero, data, 1, Len(data)) : data \in {bytes}})

CONFIG_PARAM_MAX_NAME_LENGTH == 92

\* The registered parameters, in registration order; a name is its
\* characters: "b", "i", "f".
Params ==
    << [name |-> << 98 >>, default_ |-> F(2), min |-> F(0), max |-> F(2),
        type |-> "CONFIG_TYPE_BOOL"],
       [name |-> << 105, 110 >>, default_ |-> F(2), min |-> F(0), max |-> F(2 ^ 26),
        type |-> "CONFIG_TYPE_INT"],
       [name |-> << 102 >>, default_ |-> F(1), min |-> F(0), max |-> F(2),
        type |-> "CONFIG_TYPE_FLOAT"] >>

\* _num_params
num_params == Len(Params)

\* The names given to configSet() and configGet(): the registered ones and "x".
Names == {Params[i].name : i \in 1..num_params} \cup {<< 120 >>}

\* The values given to configSet(): -1, 0.5, 1, 2^24, NaN.
SetValues == {F(-2), F(1), F(2), F(2 ^ 25), NaN}

\* Variant of isValid() that does not limit the magnitude of an integer.
isValidAnyMagnitude(descr, value) ==
    /\ isfinite(value)
    /\ Len(descr.name) <= CONFIG_PARAM_MAX_NAME_LENGTH
    /\ descr.type = "CONFIG_TYPE_BOOL" => ~(value.halves < 0 \/ value.halves > 2)
    /\ descr.type \in {"CONFIG_TYPE_INT", "CONFIG_TYPE_FLOAT"} =>
            ~(value.halves > descr.max.halves \/ value.halves < descr.min.halves)

\* isValid(descr, value) of config.cpp
isValid(descr, value) ==
    /\ isfinite(value)
    /\ Len(descr.name) <= CONFIG_PARAM_MAX_NAME_LENGTH
    /\ descr.type = "CONFIG_TYPE_BOOL" => ~(value.halves < 0 \/ value.halves > 2)
    /\ descr.type = "CONFIG_TYPE_INT" => ~(AbsHalves(value) >= 2 * 16777216)
    /\ descr.type \in {"CONFIG_TYPE_INT", "CONFIG_TYPE_FLOAT"} =>
            ~(value.halves > descr.max.halves \/ value.halves < descr.min.halves)

\* indexByName(name): the index from 1, or 0 for a name that is not registered.
indexByName(name) ==
    IF \E i \in 1..num_params : Params[i].name = name
    THEN CHOOSE i \in 1..num_params :
            Params[i].name = name /\ \A j \in 1..(i - 1) : Params[j].name # name
    ELSE 0

RECURSIVE LayoutHashOf(_, _)
\* _layout_hash after the registration of the first n of the given parameters.
LayoutHashOf(params, n) ==
    IF n = 0 THEN Crc32Zero
    ELSE Only({Crc32Range(before, name, 1, Len(name)) :
                before \in {LayoutHashOf(params, n - 1)}, name \in {params[n].name}})

\* _layout_hash once every parameter is registered.
layout_hash == LayoutHashOf(Params, num_params)

\* reinitializeDefaults(): the value pool with every default.
\* Variant of reinitializeDefaults() that takes _descr_pool[0] for every i.
DefaultsOfFirst == <<Params[1].default_, Params[1].default_, Params[1].default_>>

Defaults == <<Params[1].default_, Params[2].default_, Params[3].default_>>

\* Variant: every restored value replaced by the default of its parameter.
ValidatedNone(pool) == Defaults

\* The restored values with every value that is not valid replaced by the
\* default of its parameter.
Validated(pool) ==
    <<IF isValid(Params[1], pool[1]) THEN pool[1] ELSE Params[1].default_,
      IF isValid(Params[2], pool[2]) THEN pool[2] ELSE Params[2].default_,
      IF isValid(Params[3], pool[3]) THEN pool[3] ELSE Params[3].default_>>

(***************************************************************************)
(* State.                                                                  *)
(***************************************************************************)
Tasks == {"main", "can"}
NoTask == "none"

States == {"NoAppToBoot", "BootDelay", "BootCancelled", "AppUpgradeInProgress", "ReadyToBoot"}

VARIABLES
    state_,                     \* Bootloader::state_
    cached_app_info_,           \* Bootloader::cached_app_info_: << >> or << AppInfo >>
    boot_delay_started_at_st_,  \* Bootloader::boot_delay_started_at_st_
    boot_delay_msec_,           \* Bootloader::boot_delay_msec_
    mutex_,                     \* Bootloader::mutex_: its owner and lock count
    storage,                    \* the bytes held by the storage backend
    upgrading,                  \* the backend is between beginUpgrade() and endUpgrade()
    backend_call,               \* the backend call that returned in the last step, if any
    now,                        \* the system tick counter
    pc,                         \* where each task is
    ret,                        \* the operation that returned in the last step, if any
    res,                        \* upgradeApp(): the local res of each task
    sink,                       \* the Sink of each task's upgradeApp(), and its download
    assert_failed,              \* whether an assert() of the controller has failed
    crc64,                      \* a CRC64WE object and the bytes its user feeds it
    scanner,                    \* locateAppDescriptor(): its locals, read by read
    frozen,                     \* config.cpp: _frozen
    value_pool,                 \* config.cpp: _value_pool, one value per parameter
    modification_cnt,           \* config.cpp: _modification_cnt
    g_storage,                  \* what the storage backend of the configuration holds
    config_mutex,               \* config.cpp: _mutex
    config_task,                \* where each task is in init() or configSave(), its locals
    config_ret,                 \* the configuration call that returned in the last step
    config_call,                \* the call of g_storage that returned in the last step
    node,                       \* UAVCANFirmwareUpdateNode: its fields, where main() is
    reboot_request_flag,        \* sys.cpp: reboot_request_flag
    can_bus,                    \* the CAN bus of the node: its driver, the allocator on it
    watchdog                    \* watchdog_stm32.cpp: its statics, the IWDG, the callers

\* The variables of the configuration store.
configVars ==
    << frozen, value_pool, modification_cnt, g_storage, config_mutex, config_task,
       config_ret, config_call >>

\* The variables of the firmware update node.
nodeVars == << node, reboot_request_flag, can_bus >>

vars == << state_, cached_app_info_, boot_delay_started_at_st_, boot_delay_msec_, mutex_,
           storage, upgrading, backend_call, now, pc, ret, res, sink, assert_failed,
           crc64, scanner, configVars, nodeVars, watchdog >>

\* The variables of the controller and of the storage backend.
controllerVars ==
    << state_, cached_app_info_, boot_delay_started_at_st_, boot_delay_msec_, mutex_,
       storage, upgrading, backend_call, now, pc, ret, res, sink, assert_failed >>

\* The variables the operations of the controller leave alone: the controller
\* runs locateAppDescriptor() to its end under its mutex, in one step.
outsideController == << crc64, scanner, configVars, nodeVars, watchdog >>

\* No CRC64WE object in use, no scan in progress.
CrcIdle == [data |-> << >>, fed |-> 0, crc_ |-> CrcInit, got |-> << >>]
ScannerIdle == [pc |-> "idle"]

(***************************************************************************)
(* chibios_rt::Mutex (recursive) and os::MutexLocker.                      *)
(***************************************************************************)
MutexFree == [owner |-> NoTask, cnt |-> 0]

\* Variant: a lock that never makes its caller wait.
CanLockAlways(m, t) == TRUE

\* chMtxLock() returns at once iff the mutex is free or owned by the caller.
CanLock(m, t) == m.owner = NoTask \/ m.owner = t

\* MutexLockerImpl(): mutex_.lock()
Lock(m, t) == [owner |-> t, cnt |-> m.cnt + 1]

\* Variant: a locker that is never destroyed.
UnlockNever(m, t) == m

\* ~MutexLockerImpl(): mutex_.unlock()
Unlock(m, t) ==
    IF m.owner # t THEN m
    ELSE IF m.cnt = 1 THEN MutexFree
    ELSE [owner |-> t, cnt |-> m.cnt - 1]

(***************************************************************************)
(* System time.                                                            *)
(***************************************************************************)
\* TIME_MS2I(msec): milliseconds to ticks, rounded up
TIME_MS2I(msec) == (msec * CH_CFG_ST_FREQUENCY + 999) \div 1000

\* chVTTimeElapsedSinceX(start); the counter does not wrap within MaxTime
chVTTimeElapsedSinceX(start) == now - start

(***************************************************************************)
(* Bootloader: construction and the scan that sets the state.              *)
(***************************************************************************)
\* What verifyAppAndUpdateState(state_on_success) makes of the storage st at
\* time t, given the cached app info and the boot delay timestamp it finds: the
\* state, the cached app info and the boot delay timestamp it leaves.
\* Variant: cached_app_info_.reset() that leaves the value in place.
ResetNothing(info) == info

\* cached_app_info_.reset()
Reset(info) == << >>

\* Variant: a scan that sets the state and does not take the time.
AfterScanKeepingTimestamp(appdesc_result, state_on_success, info, started, t) ==
    IF appdesc_result.second
    THEN [state |-> state_on_success, info |-> << appdesc_result.first >>, started |-> started]
    ELSE [state |-> "NoAppToBoot", info |-> Reset(info), started |-> started]

\* Variant: a scan that sets the state and does not cache the app info.
AfterScanWithoutInfo(appdesc_result, state_on_success, info, started, t) ==
    IF appdesc_result.second
    THEN [state |-> state_on_success, info |-> info, started |-> t]
    ELSE [state |-> "NoAppToBoot", info |-> Reset(info), started |-> started]

\* The body of verifyAppAndUpdateState() after the scan returned appdesc_result.
AfterScan(appdesc_result, state_on_success, info, started, t) ==
    IF appdesc_result.second
    THEN [state |-> state_on_success, info |-> << appdesc_result.first >>, started |-> t]
    ELSE [state |-> "NoAppToBoot", info |-> Reset(info), started |-> started]

VerifyApp(st, state_on_success, info, started, t) ==
    Only({AfterScan(appdesc_result, state_on_success, info, started, t) :
            appdesc_result \in {locateAppDescriptor(st, max_application_image_size_)}})

\* Bootloader::verifyAppAndUpdateState(state_on_success), run on the storage st
verifyAppAndUpdateState(st, state_on_success) ==
    \E v \in {VerifyApp(st, state_on_success, cached_app_info_, boot_delay_started_at_st_,
                        now)} :
        /\ state_' = v.state
        /\ cached_app_info_' = v.info
        /\ boot_delay_started_at_st_' = v.started

\* What the storage of the configuration holds: the layout hash at offset 0,
\* the CRC of the values at offset 4, the values from offset 8 on.
StoredConfig(hash, crc, pool) == [layout_hash |-> hash, crc |-> crc, pool |-> pool]

\* The storage once erased: every byte is 0xFF.
ErasedConfig ==
    StoredConfig(<< 255, 255, 255, 255 >>, << 255, 255, 255, 255 >>,
                 << ErasedFloat, ErasedFloat, ErasedFloat >>)

\* A task outside init() and configSave(), and their locals attempt,
\* flash_res and stored_layout_hash.
IdleConfigTask ==
    [pc |-> "idle", attempt |-> 0, flash_res |-> 0, stored_layout_hash |-> Crc32Zero]

NoConfigReturn == [task |-> NoTask, op |-> "none", name |-> << >>, value |-> NaN, val |-> 0]
NoConfigCall == [call |-> "none", offset |-> 0, data |-> << >>, result |-> 0]

\* The configuration store before os::config::init(): the parameters are
\* registered with their defaults, the module is not frozen.
ConfigNotInitialised(stored) ==
    /\ frozen = FALSE
    /\ value_pool = Defaults
    /\ modification_cnt = 0
    /\ g_storage = stored
    /\ config_mutex = MutexFree
    /\ config_task = [t \in Tasks |-> IdleConfigTask]
    /\ config_ret = NoConfigReturn
    /\ config_call = NoConfigCall

\* The node before start(), a bus on which nothing has happened.
NodeIdle == [pc |-> "not_started"]
BusIdle == [mode |-> "none"]

NodeNotStarted ==
    /\ node = NodeIdle
    /\ reboot_request_flag = FALSE
    /\ can_bus = BusIdle

\* The watchdog before watchdogInit().
WatchdogOff == [initialised |-> FALSE]

\* The Sink before its first chunk, and the download it serves.
NewSink == [offset_ |-> 0, data |-> << >>, result |-> 0, chunks |-> 0]

NoReturn == [task |-> NoTask, op |-> "none", val |-> 0]
NoCall == [call |-> "none", arg |-> << >>, result |-> 0]

\* Bootloader::Bootloader(): the scan under the mutex, state BootDelay on
\* success.  boot_delay_started_at_st_ has no initializer and is not read
\* before a scan finds an application and sets it.
Init ==
    \E st \in InitialStorages, delay \in BootDelays :
        \E v \in {VerifyApp(st, "BootDelay", << >>, 0, 0)} :
            /\ storage = st
            /\ boot_delay_msec_ = delay
            /\ now = 0
            /\ state_ = v.state
            /\ cached_app_info_ = v.info
            /\ boot_delay_started_at_st_ = v.started
            /\ mutex_ = MutexFree
            /\ upgrading = FALSE
            /\ backend_call = NoCall
            /\ pc = [t \in Tasks |-> "idle"]
            /\ ret = NoReturn
            /\ res = [t \in Tasks |-> 0]
            /\ sink = [t \in Tasks |-> NewSink]
            /\ assert_failed = FALSE
            /\ crc64 = CrcIdle
            /\ scanner = ScannerIdle
            /\ ConfigNotInitialised(ErasedConfig)
            /\ NodeNotStarted
            /\ watchdog = WatchdogOff

(***************************************************************************)
(* The public operations.  Each starts by taking the mutex (Call) and      *)
(* releases it when it returns (Return).                                   *)
(***************************************************************************)
PublicOperations == {"getState", "getAppInfo", "cancelBoot", "requestBoot", "upgradeApp"}

\* A task calls a public operation: os::MutexLocker mlock(mutex_) at its start.
Call(t) ==
    /\ pc[t] = "idle"
    /\ CanLock(mutex_, t)
    /\ \E op \in PublicOperations : pc' = [pc EXCEPT ![t] = op]
    /\ mutex_' = Lock(mutex_, t)
    /\ ret' = NoReturn
    /\ backend_call' = NoCall
    /\ UNCHANGED << state_, cached_app_info_, boot_delay_started_at_st_, boot_delay_msec_,
                    storage, upgrading, now, res, sink, assert_failed >>
    /\ UNCHANGED outsideController

\* The operation op of task t returns val; its MutexLocker releases the mutex.
Return(t, op, val) ==
    /\ mutex_' = Unlock(mutex_, t)
    /\ pc' = [pc EXCEPT ![t] = "idle"]
    /\ ret' = [task |-> t, op |-> op, val |-> val]

\* Variant: a boot delay that has to be exceeded.
StateAfterGetStateLate ==
    IF /\ state_ = "BootDelay"
       /\ chVTTimeElapsedSinceX(boot_delay_started_at_st_) > TIME_MS2I(boot_delay_msec_)
    THEN "ReadyToBoot"
    ELSE state_

\* The state getState() leaves and returns.
StateAfterGetState ==
    IF /\ state_ = "BootDelay"
       /\ chVTTimeElapsedSinceX(boot_delay_started_at_st_) >= TIME_MS2I(boot_delay_msec_)
    THEN "ReadyToBoot"
    ELSE state_

\* Bootloader::getState()
getState(t) ==
    /\ pc[t] = "getState"
    /\ state_' = StateAfterGetState
    /\ Return(t, "getState", StateAfterGetState)
    /\ backend_call' = NoCall
    /\ UNCHANGED << cached_app_info_, boot_delay_started_at_st_, boot_delay_msec_,
                    storage, upgrading, now, res, sink, assert_failed >>
    /\ UNCHANGED outsideController

\* Bootloader::getAppInfo(): the cached info if any, else {AppInfo(), false}
getAppInfo(t) ==
    /\ pc[t] = "getAppInfo"
    /\ Return(t, "getAppInfo", cached_app_info_)
    /\ backend_call' = NoCall
    /\ UNCHANGED << state_, cached_app_info_, boot_delay_started_at_st_, boot_delay_msec_,
                    storage, upgrading, now, res, sink, assert_failed >>
    /\ UNCHANGED outsideController

\* Variant: cancelBoot() that handles BootDelay only.
StateAfterCancelBootInDelay ==
    IF state_ = "BootDelay" THEN "BootCancelled" ELSE state_

\* The state cancelBoot() leaves.
StateAfterCancelBoot ==
    IF state_ \in {"BootDelay", "ReadyToBoot"} THEN "BootCancelled" ELSE state_

\* Bootloader::cancelBoot()
cancelBoot(t) ==
    /\ pc[t] = "cancelBoot"
    /\ state_' = StateAfterCancelBoot
    /\ Return(t, "cancelBoot", 0)
    /\ backend_call' = NoCall
    /\ UNCHANGED << cached_app_info_, boot_delay_started_at_st_, boot_delay_msec_,
                    storage, upgrading, now, res, sink, assert_failed >>
    /\ UNCHANGED outsideController

\* The state requestBoot() leaves.
StateAfterRequestBoot ==
    IF state_ \in {"BootDelay", "BootCancelled"} THEN "ReadyToBoot" ELSE state_

\* Bootloader::requestBoot()
requestBoot(t) ==
    /\ pc[t] = "requestBoot"
    /\ state_' = StateAfterRequestBoot
    /\ Return(t, "requestBoot", 0)
    /\ backend_call' = NoCall
    /\ UNCHANGED << cached_app_info_, boot_delay_started_at_st_, boot_delay_msec_,
                    storage, upgrading, now, res, sink, assert_failed >>
    /\ UNCHANGED outsideController

(***************************************************************************)
(* Bootloader::upgradeApp(downloader) and Bootloader::Sink.                *)
(***************************************************************************)
\* Variant: a state check that lets an upgrade in progress through.
InvalidStateForUpgradeReadyOnly(s) == s = "ReadyToBoot"

\* Variant: a state check that also refuses an upgrade during the boot delay.
InvalidStateForUpgradeInBootDelay(s) ==
    s \in {"BootDelay", "ReadyToBoot", "AppUpgradeInProgress"}

\* switch (state_): the states upgradeApp() returns -ErrInvalidState in.
InvalidStateForUpgrade(s) == s \in {"ReadyToBoot", "AppUpgradeInProgress"}

\* Preparation stage, under the mutex taken by Call: the state check, then
\* the state and the cache are set and backend_.beginUpgrade() is entered.
upgradeAppPrepare(t) ==
    /\ pc[t] = "upgradeApp"
    /\ IF InvalidStateForUpgrade(state_)
       THEN /\ Return(t, "upgradeApp", -ErrInvalidState)
            /\ UNCHANGED << state_, cached_app_info_ >>
       ELSE /\ state_' = "AppUpgradeInProgress"
            /\ cached_app_info_' = Reset(cached_app_info_)
            /\ pc' = [pc EXCEPT ![t] = "beginUpgrade"]
            /\ ret' = NoReturn
            /\ UNCHANGED mutex_
    /\ backend_call' = NoCall
    /\ UNCHANGED << boot_delay_started_at_st_, boot_delay_msec_, storage, upgrading, now,
                    res, sink, assert_failed >>
    /\ UNCHANGED outsideController

\* backend_.beginUpgrade() returns r: the backend has erased the storage when
\* it succeeds, and may have when it fails.  On an error the storage is scanned
\* again and upgradeApp() returns r; otherwise the mutex is released, the Sink
\* is made and downloader.download(sink) is entered.
beginUpgradeReturn(t) ==
    /\ pc[t] = "beginUpgrade"
    /\ \E r \in BeginResults, erased \in BOOLEAN :
        LET st == IF erased THEN BackendErase(storage) ELSE storage
        IN  /\ r >= 0 => erased
            /\ storage' = st
            /\ backend_call' = [call |-> "beginUpgrade", arg |-> << >>, result |-> r]
            /\ IF r < 0
               THEN /\ verifyAppAndUpdateState(st, "BootCancelled")
                    /\ Return(t, "upgradeApp", r)
                    /\ UNCHANGED << sink, upgrading >>
               ELSE /\ mutex_' = Unlock(mutex_, t)
                    /\ pc' = [pc EXCEPT ![t] = "download"]
                    /\ sink' = [sink EXCEPT ![t] = NewSink]
                    /\ upgrading' = TRUE
                    /\ ret' = NoReturn
                    /\ UNCHANGED << state_, cached_app_info_, boot_delay_started_at_st_ >>
    /\ UNCHANGED << boot_delay_msec_, now, res, assert_failed >>
    /\ UNCHANGED outsideController

\* The downloader hands its next chunk to the sink: handleNextDataChunk(data,
\* size) starts by taking the mutex.  A downloader stops at the first error of
\* the sink.
downloadNextChunk(t) ==
    /\ pc[t] = "download"
    /\ sink[t].result >= 0
    /\ sink[t].chunks < MaxChunks
    /\ CanLock(mutex_, t)
    /\ mutex_' = Lock(mutex_, t)
    /\ \E data \in Chunks :
        sink' = [sink EXCEPT ![t].data = data, ![t].chunks = @ + 1]
    /\ pc' = [pc EXCEPT ![t] = "handleNextDataChunk"]
    /\ ret' = NoReturn
    /\ backend_call' = NoCall
    /\ UNCHANGED << state_, cached_app_info_, boot_delay_started_at_st_, boot_delay_msec_,
                    storage, upgrading, now, res, assert_failed >>
    /\ UNCHANGED outsideController

\* Sink::handleNextDataChunk() under the mutex: the size check, then
\* backend_.write(offset_, data, size) is entered, or ImageTooLarge is returned.
\* Variant of the size check of the sink that refuses a chunk ending exactly
\* at max_image_size_.
FitsImageBelow(offset, size, max_image_size) == offset + size < max_image_size

\* The size check of Sink::handleNextDataChunk().
FitsImage(offset, size, max_image_size) == offset + size <= max_image_size

handleNextDataChunk(t) ==
    /\ pc[t] = "handleNextDataChunk"
    /\ IF FitsImage(sink[t].offset_, Len(sink[t].data), max_application_image_size_)
       THEN /\ pc' = [pc EXCEPT ![t] = "write"]
            /\ UNCHANGED << mutex_, sink >>
       ELSE /\ sink' = [sink EXCEPT ![t].result = -ErrAppImageTooLarge, ![t].data = << >>]
            /\ mutex_' = Unlock(mutex_, t)
            /\ pc' = [pc EXCEPT ![t] = "download"]
    /\ ret' = NoReturn
    /\ backend_call' = NoCall
    /\ UNCHANGED << state_, cached_app_info_, boot_delay_started_at_st_, boot_delay_msec_,
                    storage, upgrading, now, res, assert_failed >>
    /\ UNCHANGED outsideController

\* Variant of the sink that counts the bytes of a short write.
SinkAfterShortWriteAdvancing(s, size, r) ==
    IF r >= 0 /\ r # size
    THEN [s EXCEPT !.offset_ = @ + r, !.result = -ErrAppStorageWriteFailure, !.data = << >>]
    ELSE [s EXCEPT !.offset_ = @ + size, !.result = r, !.data = << >>]

\* What the sink returns and where its offset_ stands after backend_.write()
\* returned r for a chunk of size bytes.
SinkAfterWrite(s, size, r) ==
    IF r >= 0 /\ r # size
    THEN [s EXCEPT !.result = -ErrAppStorageWriteFailure, !.data = << >>]
    ELSE [s EXCEPT !.offset_ = @ + size, !.result = r, !.data = << >>]

\* backend_.write() returns; the sink returns to the downloader and its
\* MutexLocker releases the mutex.
writeReturn(t) ==
    /\ pc[t] = "write"
    /\ \E r \in WriteResults(Len(sink[t].data)) :
        /\ storage' = BackendStore(storage, sink[t].offset_, Written(sink[t].data, r))
        /\ backend_call' = [call |-> "write",
                            arg |-> << sink[t].offset_, Len(sink[t].data) >>, result |-> r]
        /\ sink' = [sink EXCEPT ![t] = SinkAfterWrite(sink[t], Len(sink[t].data), r)]
    /\ mutex_' = Unlock(mutex_, t)
    /\ pc' = [pc EXCEPT ![t] = "download"]
    /\ ret' = NoReturn
    /\ UNCHANGED << state_, cached_app_info_, boot_delay_started_at_st_, boot_delay_msec_,
                    upgrading, now, res, assert_failed >>
    /\ UNCHANGED outsideController

\* The results downloader.download(sink) may return: negative after an error
\* of the sink (that error, or one of its own), else a result of its own.
DownloadReturns(s) ==
    IF s.result < 0 THEN {s.result} \cup {r \in DownloadResults : r < 0} ELSE DownloadResults

\* downloader.download(sink) returns into res; the finalization stage starts
\* by taking the mutex.
downloadReturn(t) ==
    /\ pc[t] = "download"
    /\ \E r \in DownloadReturns(sink[t]) : res' = [res EXCEPT ![t] = r]
    /\ CanLock(mutex_, t)
    /\ mutex_' = Lock(mutex_, t)
    /\ pc' = [pc EXCEPT ![t] = "finalize"]
    /\ ret' = NoReturn
    /\ backend_call' = NoCall
    /\ UNCHANGED << state_, cached_app_info_, boot_delay_started_at_st_, boot_delay_msec_,
                    storage, upgrading, now, sink, assert_failed >>
    /\ UNCHANGED outsideController

\* Finalization stage under the mutex: the assertion, the default state, and
\* backend_.endUpgrade(res >= 0) is entered.
upgradeAppFinalize(t) ==
    /\ pc[t] = "finalize"
    /\ assert_failed' = (assert_failed \/ state_ # "AppUpgradeInProgress")
    /\ state_' = "NoAppToBoot"
    /\ pc' = [pc EXCEPT ![t] = "endUpgrade"]
    /\ ret' = NoReturn
    /\ backend_call' = NoCall
    /\ UNCHANGED << cached_app_info_, boot_delay_started_at_st_, boot_delay_msec_, mutex_,
                    storage, upgrading, now, res, sink >>
    /\ UNCHANGED outsideController

\* Variant: the error of endUpgrade() returned whatever the download gave.
UpgradeOutcomeEndFirst(dl, r) ==
    IF r < 0 THEN [val |-> r, state_on_success |-> "BootCancelled"]
    ELSE IF dl < 0 THEN [val |-> dl, state_on_success |-> "BootCancelled"]
    ELSE [val |-> ErrOK, state_on_success |-> "BootDelay"]

\* Variant: endUpgrade(res > 0)
EndUpgradeSuccessPositive(dl) == dl > 0

\* The argument of backend_.endUpgrade(): false after if (res < 0), else true.
EndUpgradeSuccess(dl) == dl >= 0

\* What upgradeApp() returns and the state a found application gets, given the
\* result dl of the download and the result r of endUpgrade().
UpgradeOutcome(dl, r) ==
    IF dl < 0 THEN [val |-> dl, state_on_success |-> "BootCancelled"]
    ELSE IF r < 0 THEN [val |-> r, state_on_success |-> "BootCancelled"]
    ELSE [val |-> ErrOK, state_on_success |-> "BootDelay"]

\* backend_.endUpgrade(res >= 0) returns r; the storage is scanned again and
\* upgradeApp() returns.
endUpgradeReturn(t) ==
    /\ pc[t] = "endUpgrade"
    /\ \E r \in EndResults :
        LET out == UpgradeOutcome(res[t], r)
        IN  /\ backend_call' = [call |-> "endUpgrade", arg |-> << EndUpgradeSuccess(res[t]) >>,
                                result |-> r]
            /\ verifyAppAndUpdateState(storage, out.state_on_success)
            /\ Return(t, "upgradeApp", out.val)
    /\ upgrading' = FALSE
    /\ res' = [res EXCEPT ![t] = 0]
    /\ sink' = [sink EXCEPT ![t] = NewSink]
    /\ UNCHANGED << boot_delay_msec_, storage, now, assert_failed >>
    /\ UNCHANGED outsideController

\* The system tick counter advances.
Tick ==
    /\ now + TickQuantum <= MaxTime
    /\ now' = now + TickQuantum
    /\ ret' = NoReturn
    /\ backend_call' = NoCall
    /\ UNCHANGED << state_, cached_app_info_, boot_delay_started_at_st_, boot_delay_msec_,
                    mutex_, storage, upgrading, pc, res, sink, assert_failed >>
    /\ UNCHANGED outsideController

Next ==
    \/ \E t \in Tasks : Call(t)
    \/ \E t \in Tasks : getState(t)
    \/ \E t \in Tasks : getAppInfo(t)
    \/ \E t \in Tasks : cancelBoot(t)
    \/ \E t \in Tasks : requestBoot(t)
    \/ \E t \in Tasks : upgradeAppPrepare(t)
    \/ \E t \in Tasks : beginUpgradeReturn(t)
    \/ \E t \in Tasks : downloadNextChunk(t)
    \/ \E t \in Tasks : handleNextDataChunk(t)
    \/ \E t \in Tasks : writeReturn(t)
    \/ \E t \in Tasks : downloadReturn(t)
    \/ \E t \in Tasks : upgradeAppFinalize(t)
    \/ \E t \in Tasks : endUpgradeReturn(t)
    \/ Tick

Spec == Init /\ [][Next]_vars

(***************************************************************************)
(* A CRC64WE object in the hands of a user that feeds it a byte sequence   *)
(* in consecutive pieces of any sizes and reads the result with get().     *)
(***************************************************************************)
\* The longest all-zeros/all-ones byte sequence fed.
MaxCrcLen == 4

RECURSIVE ByteSeqs(_, _)
\* The sequences of at most n bytes taken from B.
ByteSeqs(B, n) ==
    IF n = 0 THEN {<< >>}
    ELSE {<< >>} \cup {<< b >> \o tail : b \in B, tail \in ByteSeqs(B, n - 1)}

\* The ASCII bytes of "123456789".
CheckString == << 49, 50, 51, 52, 53, 54, 55, 56, 57 >>

\* 0x62EC59E3F1A4F00A, most significant byte first.
CheckValue == << 98, 236, 89, 227, 241, 164, 240, 10 >>

\* The byte sequences fed to the object.
CrcInputs == {CheckString} \cup ByteSeqs({0, 255}, MaxCrcLen)

CrcUserInit ==
    /\ \E data \in CrcInputs :
            crc64 = [data |-> data, fed |-> 0, crc_ |-> CrcInit, got |-> << >>]
    /\ scanner = ScannerIdle
    /\ ConfigNotInitialised(ErasedConfig)
    /\ NodeNotStarted
    /\ watchdog = WatchdogOff
    /\ storage = BlankStorage
    /\ boot_delay_msec_ = 0
    /\ now = 0
    /\ state_ = "NoAppToBoot"
    /\ cached_app_info_ = << >>
    /\ boot_delay_started_at_st_ = 0
    /\ mutex_ = MutexFree
    /\ upgrading = FALSE
    /\ backend_call = NoCall
    /\ pc = [t \in Tasks |-> "idle"]
    /\ ret = NoReturn
    /\ res = [t \in Tasks |-> 0]
    /\ sink = [t \in Tasks |-> NewSink]
    /\ assert_failed = FALSE

\* crc.add(data + fed, len) for the next len bytes of the sequence.
add(len) ==
    /\ crc64.fed + len <= Len(crc64.data)
    /\ crc64' = [crc64 EXCEPT
                    !.crc_ = CrcAdd(crc64.crc_, SubSeq(crc64.data, crc64.fed + 1, crc64.fed + len)),
                    !.fed = @ + len,
                    !.got = << >>]
    /\ UNCHANGED << controllerVars, scanner, configVars, nodeVars, watchdog >>

\* crc.get(): a const member function.
get ==
    /\ crc64.got = << >>
    /\ crc64' = [crc64 EXCEPT !.got = << CrcGet(crc64.crc_) >>]
    /\ UNCHANGED << controllerVars, scanner, configVars, nodeVars, watchdog >>

CrcUserNext ==
    \/ \E len \in 1..Len(CheckString) : add(len)
    \/ get

CrcUserSpec == CrcUserInit /\ [][CrcUserNext]_vars

(***************************************************************************)
(* locateAppDescriptor() read by read, on a backend whose reads may fail   *)
(* or return short, over storages that hold descriptors of every kind.     *)
(***************************************************************************)
\* Capacity of the scanned storage and the max_application_image_size of its
\* controller, bytes.
ScanStorageSize == 1104
ScanMaxImageSize == 1096

\* The most reads of one scan that fail or return short of what the storage
\* holds.
MaxReadFaults == 1

\* A descriptor with the given image_crc field, image_size and vcs_commit byte.
Descriptor(image_crc, image_size, vcs) ==
    Signature \o image_crc \o << image_size % 256, image_size \div 256, 0, 0 >>
        \o << vcs, 0, 0, 0 >> \o << 1, 2 >> \o << 0, 0, 0, 0, 0, 0 >>

\* The image with the image_crc field of its descriptor at offset set to the
\* CRC of crc_input.
Sealed(image, offset, crc_input) ==
    BackendStore(image, offset + 8, U64Bytes(CrcGet(CrcAdd(CrcInit, crc_input))))

\* The image with the image_crc field of its descriptor at offset (zero so
\* far) set to the CRC of the image.
SealedImage(image, offset) == Sealed(image, offset, image)

\* A 64-byte image whose descriptor lies at offset 32, behind the given 32
\* bytes.
ImageBehind(head) == SealedImage(head \o Descriptor(ZeroCrcField, 64, 5), 32)

\* A descriptor that declares an image of 8 bytes, shorter than itself, with
\* the CRC of those 8 bytes.
ShortImage == Sealed(Descriptor(ZeroCrcField, 8, 3), 0, Signature)

\* The same descriptor with the CRC of its first 16 bytes, the image_crc field
\* zeroed.
ShortImageLongCrc == Sealed(Descriptor(ZeroCrcField, 8, 3), 0, Signature \o ZeroCrcField)

\* A descriptor whose image_crc is the CRC of its image without the first 8
\* bytes.
HeadlessCrcImage ==
    Sealed(Descriptor(ZeroCrcField, 32, 3), 0,
           SubSeq(Descriptor(ZeroCrcField, 32, 3), 9, 32))

\* An image that is 72 bytes longer than rom_buffer_, its descriptor first.
LargeImage ==
    SealedImage(Descriptor(ZeroCrcField, RomBufferSize + 72, 7)
                    \o Erased(RomBufferSize + 72 - DescriptorSize), 0)

\* The images found in the scanned storage.
ScanImages ==
    {<< >>, GoodImage, BadImage, ShortImage, ShortImageLongCrc, HeadlessCrcImage, LargeImage,
     SealedImage(Padding \o Descriptor(ZeroCrcField, 40, 5), 8),
     Erased(ScanStorageSize - 8) \o Signature}
    \cup {ImageBehind(head) : head \in {GoodImage, BadImage, ShortImageLongCrc}}
    \cup {ImageBehind(Descriptor(ZeroCrcField, size, 3)) : size \in {0, 12, ScanMaxImageSize + 8}}

ScanStorages == {BackendStore(Erased(ScanStorageSize), 0, image) : image \in ScanImages}

\* What a read of size bytes at offset may give: res and the bytes read.  A
\* read may fail (negative res) or return a part of what the storage holds.
ReadOutcomes(st, offset, size, faults) ==
    {[res |-> Len(data), data |-> data] : data \in {BackendRead(st, offset, size)}}
    \cup (IF faults < MaxReadFaults
          THEN {[res |-> -1, data |-> << >>]}
               \cup {[res |-> Len(data) \div 2, data |-> SubSeq(data, 1, Len(data) \div 2)] :
                        data \in {d \in {BackendRead(st, offset, size)} : Len(d) >= 2}}
          ELSE {})

\* The faults counted after a read that gave r.
Faults(st, offset, size, faults, r) ==
    IF r.res = Len(BackendRead(st, offset, size)) THEN faults ELSE faults + 1

\* The locals of a scan that starts: offset = 0.
ScannerStart ==
    [pc |-> "signature", offset |-> 0, desc |-> << >>, i |-> 0, crc |-> CrcInit,
     faults |-> 0, checked |-> << >>, result |-> [second |-> FALSE]]

\* continue: the next round of the loop, offset += Step.
Continue(s) ==
    [s EXCEPT !.pc = "signature", !.offset = @ + Step, !.desc = << >>, !.i = 0,
              !.crc = CrcInit]

\* break, or return: the scan ends with the given pair.
Finish(s, result) ==
    [s EXCEPT !.pc = "done", !.desc = << >>, !.i = 0, !.crc = CrcInit, !.result = result]

\* if (crc.get() != desc.app_info.image_crc) continue; return {desc, true};
\* checked records the value compared.
Compare(s) ==
    IF CrcGet(s.crc) # BytesU64(DescImageCrc(s.desc))
    THEN Continue([s EXCEPT !.checked = << [offset |-> s.offset,
                                            image_size |-> U32LE(DescImageSize(s.desc)),
                                            crc |-> CrcGet(s.crc)] >>])
    ELSE Finish([s EXCEPT !.checked = << [offset |-> s.offset,
                                          image_size |-> U32LE(DescImageSize(s.desc)),
                                          crc |-> CrcGet(s.crc)] >>],
                [second |-> TRUE, first |-> DescAppInfo(s.desc), offset |-> s.offset])

\* The second read loop starts at i, or is over.
RestFrom(s) ==
    IF s.i < U32LE(DescImageSize(s.desc)) THEN [s EXCEPT !.pc = "crc_rest"] ELSE Compare(s)

\* The first read loop is over: crc.add(dummy, 8), then i = crc_offset + 8.
EnterRest(s) ==
    RestFrom([s EXCEPT !.crc = CrcAdd(@, ZeroCrcField), !.i = s.offset + 8 + 8])

\* The first read loop after a read: its condition i < crc_offset.
HeadFrom(s) == IF s.i < s.offset + 8 THEN s ELSE EnterRest(s)

\* Variant: the bytes read are added to the CRC and not to i.
AfterReadInPlace(s, r) == [s EXCEPT !.crc = CrcAdd(@, r.data)]

\* if (res > 0) { i += res; crc.add(rom_buffer_, res); } else break;
AfterRead(s, r) == [s EXCEPT !.i = @ + r.res, !.crc = CrcAdd(@, r.data)]

ScanInit ==
    /\ storage \in ScanStorages
    /\ scanner = ScannerStart
    /\ crc64 = CrcIdle
    /\ ConfigNotInitialised(ErasedConfig)
    /\ NodeNotStarted
    /\ watchdog = WatchdogOff
    /\ boot_delay_msec_ = 0
    /\ now = 0
    /\ state_ = "NoAppToBoot"
    /\ cached_app_info_ = << >>
    /\ boot_delay_started_at_st_ = 0
    /\ mutex_ = MutexFree
    /\ upgrading = FALSE
    /\ backend_call = NoCall
    /\ pc = [t \in Tasks |-> "idle"]
    /\ ret = NoReturn
    /\ res = [t \in Tasks |-> 0]
    /\ sink = [t \in Tasks |-> NewSink]
    /\ assert_failed = FALSE

\* What a step of the scan leaves alone.
ScanUnchanged ==
    UNCHANGED << state_, cached_app_info_, boot_delay_started_at_st_, boot_delay_msec_,
                 mutex_, storage, upgrading, now, pc, ret, res, sink, assert_failed, crc64,
                 configVars, nodeVars, watchdog >>

\* backend_.read(offset, size) of the scan returns r, and the scan goes on as
\* next says.
ReadReturns(offset, size, r, next) ==
    /\ backend_call' = [call |-> "read", arg |-> << offset, size >>, result |-> r.res]
    /\ scanner' = [next EXCEPT !.faults = Faults(storage, offset, size, @, r)]
    /\ ScanUnchanged

\* Reading the storage in 8 bytes increments until the signature is found.
readSignature ==
    /\ scanner.pc = "signature"
    /\ \E r \in ReadOutcomes(storage, scanner.offset, Step, scanner.faults) :
        ReadReturns(scanner.offset, Step, r,
                    IF r.res # Step THEN Finish(scanner, [second |-> FALSE])
                    ELSE IF r.data # Signature THEN Continue(scanner)
                    ELSE [scanner EXCEPT !.pc = "descriptor"])

\* Reading the entire descriptor.
readDescriptor ==
    /\ scanner.pc = "descriptor"
    /\ \E r \in ReadOutcomes(storage, scanner.offset, DescriptorSize, scanner.faults) :
        ReadReturns(scanner.offset, DescriptorSize, r,
                    IF r.res # DescriptorSize THEN Finish(scanner, [second |-> FALSE])
                    ELSE IF ~IsValid(r.data, ScanMaxImageSize) THEN Continue(scanner)
                    ELSE [scanner EXCEPT !.pc = "crc_head", !.desc = r.data])

\* A read of the loop that reads until the CRC field is reached.
readImageHead ==
    /\ scanner.pc = "crc_head"
    /\ \E size \in {Min(RomBufferSize, scanner.offset + 8 - scanner.i)} :
       \E r \in ReadOutcomes(storage, scanner.i, size, scanner.faults) :
       \E read \in {AfterRead(scanner, r)} :
        ReadReturns(scanner.i, size, r,
                    IF r.res > 0 THEN HeadFrom(read) ELSE EnterRest(scanner))

\* A read of the loop that reads the rest of the image.
readImageRest ==
    /\ scanner.pc = "crc_rest"
    /\ \E size \in {Min(RomBufferSize, U32LE(DescImageSize(scanner.desc)) - scanner.i)} :
       \E r \in ReadOutcomes(storage, scanner.i, size, scanner.faults) :
       \E read \in {AfterRead(scanner, r)} :
        ReadReturns(scanner.i, size, r,
                    IF r.res > 0 THEN RestFrom(read) ELSE Compare(scanner))

ScanNext ==
    \/ readSignature
    \/ readDescriptor
    \/ readImageHead
    \/ readImageRest

ScanSpec == ScanInit /\ [][ScanNext]_vars

\* The caller of locateAppDescriptor() runs until it returns.
ScanFairSpec == ScanSpec /\ WF_vars(ScanNext)

(***************************************************************************)
(* The configuration store in use: os::config::init() at start-up, then    *)
(* configSet(), configGet() and configSave() from both tasks, on a storage *)
(* backend whose calls may fail.                                           *)
(***************************************************************************)
ENOENT == 2
EINVAL == 22
InitCodeRestored == 1
InitCodeLayoutMismatch == 2
InitCodeCRCMismatch == 3
MaxRetries == 3

\* The most successful configSet() calls of a run.
MaxModifications == 2

\* What read(), write() and erase() of the storage return: 0, or an error.
StorageResults == {0, -5}

\* stored_layout_hash = 0xdeadbeef
DeadBeef == << 222, 173, 190, 239 >>

\* What the storage holds after configSave() of the pool.
Saved(pool) == StoredConfig(layout_hash, crc32(PoolBytes(pool)), pool)

\* The layout hash of a registry with other names.
OtherLayoutHash == LayoutHashOf(<< [name |-> << 98 >>], [name |-> << 120 >>] >>, 2)

\* Another registry of three parameters: "bi", "n", "f".
RegroupedNames == << [name |-> << 98, 105 >>], [name |-> << 110 >>], [name |-> << 102 >>] >>

\* What the storage may hold at start-up: nothing, the store of another
\* registry, a store saved with values that are all valid, with values that are
\* not (these parameters had other limits), with a CRC of other values.
InitialConfigs ==
    {ErasedConfig,
     StoredConfig(OtherLayoutHash, crc32(PoolBytes(<< F(0), F(0), F(0) >>)),
                  << F(0), F(0), F(0) >>),
     Saved(<< F(0), F(0), F(2) >>),
     Saved(<< F(1), F(1), F(1) >>),
     Saved(<< F(-2), ErasedFloat, F(2) >>),
     Saved(<< PosInf, F(2 ^ 25), F(4) >>),
     StoredConfig(layout_hash, crc32(PoolBytes(<< F(0), F(0), F(2) >>)),
                  << F(0), F(2), F(2) >>),
     StoredConfig(LayoutHashOf(RegroupedNames, 3),
                  crc32(PoolBytes(<< F(0), F(0), F(0) >>)), << F(0), F(0), F(0) >>)}

InitStages == {"init_hash", "init_values", "init_crc"}
SaveStages == {"save_erase", "save_hash", "save_crc", "save_values"}

ConfigInit ==
    /\ \E stored \in InitialConfigs : ConfigNotInitialised(stored)
    /\ NodeNotStarted
    /\ watchdog = WatchdogOff
    /\ crc64 = CrcIdle
    /\ scanner = ScannerIdle
    /\ storage = BlankStorage
    /\ boot_delay_msec_ = 0
    /\ now = 0
    /\ state_ = "NoAppToBoot"
    /\ cached_app_info_ = << >>
    /\ boot_delay_started_at_st_ = 0
    /\ mutex_ = MutexFree
    /\ upgrading = FALSE
    /\ backend_call = NoCall
    /\ pc = [t \in Tasks |-> "idle"]
    /\ ret = NoReturn
    /\ res = [t \in Tasks |-> 0]
    /\ sink = [t \in Tasks |-> NewSink]
    /\ assert_failed = FALSE

\* The variables the configuration store leaves alone.
outsideConfig == << controllerVars, crc64, scanner, nodeVars, watchdog >>

\* No task is inside os::config::init().
InitReturned == frozen /\ \A t \in Tasks : config_task[t].pc \notin InitStages

\* The call op of task t returns val.
ConfigReturn(t, op, name, value, val) ==
    [task |-> t, op |-> op, name |-> name, value |-> value, val |-> val]

\* os::config::init(storage) up to its first read: _frozen = true,
\* reinitializeDefaults().
initStart(t) ==
    /\ ~frozen
    /\ config_task[t].pc = "idle"
    /\ frozen' = TRUE
    /\ value_pool' = Defaults
    /\ config_task' = [config_task EXCEPT ![t] =
            [pc |-> "init_hash", attempt |-> 0, flash_res |-> 0,
             stored_layout_hash |-> DeadBeef]]
    /\ config_ret' = NoConfigReturn
    /\ config_call' = NoConfigCall
    /\ UNCHANGED << modification_cnt, g_storage, config_mutex, outsideConfig >>

\* init() returns code.
InitReturns(t, code) ==
    /\ config_task' = [config_task EXCEPT ![t] = IdleConfigTask]
    /\ config_ret' = ConfigReturn(t, "init", << >>, NaN, code)

\* An attempt of init() to read the layout hash, and the check that follows
\* the last one.
initReadHash(t) ==
    /\ config_task[t].pc = "init_hash"
    /\ \E flash_res \in StorageResults :
       \E hash \in {IF flash_res = 0 THEN g_storage.layout_hash
                    ELSE config_task[t].stored_layout_hash} :
        /\ config_call' = [call |-> "read", offset |-> 0, data |-> hash, result |-> flash_res]
        /\ IF (flash_res = 0 /\ hash = layout_hash)
                \/ (config_task[t].attempt + 1 >= MaxRetries /\ hash = layout_hash)
           THEN /\ config_task' = [config_task EXCEPT ![t].pc = "init_values",
                                                      ![t].attempt = 0,
                                                      ![t].stored_layout_hash = hash]
                /\ config_ret' = NoConfigReturn
           ELSE IF config_task[t].attempt + 1 < MaxRetries
           THEN /\ config_task' = [config_task EXCEPT ![t].attempt = @ + 1,
                                                      ![t].stored_layout_hash = hash]
                /\ config_ret' = NoConfigReturn
           ELSE InitReturns(t, InitCodeLayoutMismatch)
    /\ UNCHANGED << frozen, value_pool, modification_cnt, g_storage, config_mutex,
                    outsideConfig >>

\* continue in the loop of init() that restores the values: the next attempt,
\* or reinitializeDefaults() and InitCodeCRCMismatch after the last.
InitNextAttempt(t) ==
    IF config_task[t].attempt + 1 < MaxRetries
    THEN /\ config_task' = [config_task EXCEPT ![t].pc = "init_values",
                                               ![t].attempt = @ + 1]
         /\ config_ret' = NoConfigReturn
         /\ UNCHANGED value_pool
    ELSE /\ value_pool' = Defaults
         /\ InitReturns(t, InitCodeCRCMismatch)

\* An attempt of init() reads the values into _value_pool.
initReadValues(t) ==
    /\ config_task[t].pc = "init_values"
    /\ \E flash_res \in StorageResults :
        /\ config_call' = [call |-> "read", offset |-> 8, data |-> g_storage.pool,
                           result |-> flash_res]
        /\ IF flash_res = 0
           THEN /\ value_pool' = g_storage.pool
                /\ config_task' = [config_task EXCEPT ![t].pc = "init_crc"]
                /\ config_ret' = NoConfigReturn
           ELSE InitNextAttempt(t)
    /\ UNCHANGED << frozen, modification_cnt, g_storage, config_mutex, outsideConfig >>

\* An attempt of init() reads the stored CRC, compares it with the CRC of
\* _value_pool and, when they agree, replaces the values that are not valid.
initReadCrc(t) ==
    /\ config_task[t].pc = "init_crc"
    /\ \E flash_res \in StorageResults :
        /\ config_call' = [call |-> "read", offset |-> 4, data |-> g_storage.crc,
                           result |-> flash_res]
        /\ IF flash_res # 0 \/ crc32(PoolBytes(value_pool)) # g_storage.crc
           THEN InitNextAttempt(t)
           ELSE /\ value_pool' = Validated(value_pool)
                /\ InitReturns(t, InitCodeRestored)
    /\ UNCHANGED << frozen, modification_cnt, g_storage, config_mutex, outsideConfig >>

\* Variant of configSet() without _modification_cnt += 1.
SetOutcomeUncounted(index, value, pool) ==
    IF index = 0 THEN [retval |-> -ENOENT, pool |-> pool, modified |-> 0]
    ELSE IF ~isValid(Params[index], value)
    THEN [retval |-> -EINVAL, pool |-> pool, modified |-> 0]
    ELSE [retval |-> 0, pool |-> [pool EXCEPT ![index] = value], modified |-> 0]

\* _value_pool and the result after configSet(name, value) found index.
SetOutcome(index, value, pool) ==
    IF index = 0 THEN [retval |-> -ENOENT, pool |-> pool, modified |-> 0]
    ELSE IF ~isValid(Params[index], value)
    THEN [retval |-> -EINVAL, pool |-> pool, modified |-> 0]
    ELSE [retval |-> 0, pool |-> [pool EXCEPT ![index] = value], modified |-> 1]

\* configSet(name, value), under the mutex from its first statement to its last.
configSet(t, name, value) ==
    /\ InitReturned
    /\ config_task[t].pc = "idle"
    /\ CanLock(config_mutex, t)
    /\ modification_cnt < MaxModifications
    /\ \E out \in {SetOutcome(indexByName(name), value, value_pool)} :
        /\ value_pool' = out.pool
        /\ modification_cnt' = modification_cnt + out.modified
        /\ config_ret' = ConfigReturn(t, "set", name, value, out.retval)
    /\ config_call' = NoConfigCall
    /\ UNCHANGED << frozen, g_storage, config_mutex, config_task, outsideConfig >>

\* The value configGet(name) returns once indexByName() gave index.
GetOutcome(index, pool) == IF index = 0 THEN NaN ELSE pool[index]

\* configGet(name), under the mutex.  ASSERT_ALWAYS(_frozen) is all that it
\* asks of init().
configGet(t, name) ==
    /\ frozen
    /\ config_task[t].pc = "idle"
    /\ CanLock(config_mutex, t)
    /\ config_ret' = ConfigReturn(t, "get", name, GetOutcome(indexByName(name), value_pool), 0)
    /\ config_call' = NoConfigCall
    /\ UNCHANGED << frozen, value_pool, modification_cnt, g_storage, config_mutex,
                    config_task, outsideConfig >>

\* configSave() up to its first attempt: the mutex is taken.
saveStart(t) ==
    /\ InitReturned
    /\ config_task[t].pc = "idle"
    /\ CanLock(config_mutex, t)
    /\ config_mutex' = Lock(config_mutex, t)
    /\ config_task' = [config_task EXCEPT ![t] =
            [pc |-> "save_erase", attempt |-> 0, flash_res |-> 0,
             stored_layout_hash |-> Crc32Zero]]
    /\ config_ret' = NoConfigReturn
    /\ config_call' = NoConfigCall
    /\ UNCHANGED << frozen, value_pool, modification_cnt, g_storage, outsideConfig >>

\* configSave() returns flash_res; its locker releases the mutex.
SaveReturns(t, flash_res) ==
    /\ config_task' = [config_task EXCEPT ![t] = IdleConfigTask]
    /\ config_mutex' = Unlock(config_mutex, t)
    /\ config_ret' = ConfigReturn(t, "save", << >>, NaN, flash_res)

\* Variant of the loop of configSave() that gives up after the first attempt.
SaveAttemptsLeftNone(attempt) == FALSE

\* attempt++, attempt < MaxRetries
SaveAttemptsLeft(attempt) == attempt + 1 < MaxRetries

\* continue in the loop of configSave() after a step gave flash_res # 0: the
\* next attempt, or the return of flash_res after the last.
SaveNextAttempt(t, flash_res) ==
    IF SaveAttemptsLeft(config_task[t].attempt)
    THEN /\ config_task' = [config_task EXCEPT ![t].pc = "save_erase",
                                               ![t].attempt = @ + 1,
                                               ![t].flash_res = flash_res]
         /\ config_ret' = NoConfigReturn
         /\ UNCHANGED config_mutex
    ELSE SaveReturns(t, flash_res)

\* A step of an attempt of configSave(): the call of g_storage gives flash_res
\* and, when it is 0, leaves the storage as stored; then the next step.
SaveStep(t, call, stored, next) ==
    /\ \E flash_res \in StorageResults :
        /\ config_call' = [call EXCEPT !.result = flash_res]
        /\ IF flash_res # 0
           THEN /\ SaveNextAttempt(t, flash_res)
                /\ UNCHANGED g_storage
           ELSE /\ g_storage' = stored
                /\ IF next = "return"
                   THEN SaveReturns(t, 0)
                   ELSE /\ config_task' = [config_task EXCEPT ![t].pc = next,
                                                              ![t].flash_res = 0]
                        /\ config_ret' = NoConfigReturn
                        /\ UNCHANGED config_mutex
    /\ UNCHANGED << frozen, value_pool, modification_cnt, outsideConfig >>

\* flash_res = g_storage->erase()
saveErase(t) ==
    /\ config_task[t].pc = "save_erase"
    /\ SaveStep(t,
             [call |-> "erase", offset |-> 0, data |-> << >>, result |-> 0],
             ErasedConfig, "save_hash")

\* flash_res = g_storage->write(OFFSET_LAYOUT_HASH, &_layout_hash, 4)
saveWriteHash(t) ==
    /\ config_task[t].pc = "save_hash"
    /\ SaveStep(t,
             [call |-> "write", offset |-> 0, data |-> layout_hash, result |-> 0],
             [g_storage EXCEPT !.layout_hash = layout_hash], "save_crc")

\* flash_res = g_storage->write(OFFSET_CRC, &true_crc, 4)
saveWriteCrc(t) ==
    /\ config_task[t].pc = "save_crc"
    /\ SaveStep(t,
             [call |-> "write", offset |-> 4, data |-> crc32(PoolBytes(value_pool)),
              result |-> 0],
             [g_storage EXCEPT !.crc = crc32(PoolBytes(value_pool))], "save_values")

\* flash_res = g_storage->write(OFFSET_VALUES, _value_pool, pool_len)
saveWriteValues(t) ==
    /\ config_task[t].pc = "save_values"
    /\ SaveStep(t,
             [call |-> "write", offset |-> 8, data |-> value_pool, result |-> 0],
             [g_storage EXCEPT !.pool = value_pool], "return")

\* configErase(): erase() of the storage gives res; the defaults and the
\* counter follow when res >= 0.
configErase(t) ==
    /\ InitReturned
    /\ config_task[t].pc = "idle"
    /\ CanLock(config_mutex, t)
    /\ modification_cnt < MaxModifications
    /\ \E res_ \in StorageResults :
        /\ config_call' = [call |-> "erase", offset |-> 0, data |-> << >>, result |-> res_]
        /\ config_ret' = ConfigReturn(t, "erase", << >>, NaN, res_)
        /\ IF res_ >= 0
           THEN /\ g_storage' = ErasedConfig
                /\ value_pool' = Defaults
                /\ modification_cnt' = modification_cnt + 1
           ELSE UNCHANGED << g_storage, value_pool, modification_cnt >>
    /\ UNCHANGED << frozen, config_mutex, config_task, outsideConfig >>

\* getModificationCounter(): return _modification_cnt, without the mutex.
getModificationCounter(t) ==
    /\ frozen
    /\ config_task[t].pc = "idle"
    /\ config_ret' = ConfigReturn(t, "counter", << >>, NaN, modification_cnt)
    /\ config_call' = NoConfigCall
    /\ UNCHANGED << frozen, value_pool, modification_cnt, g_storage, config_mutex,
                    config_task, outsideConfig >>

\* The processor restarts: the statics of config.cpp are as the same registry
\* leaves them, the storage holds what it held.
restart ==
    /\ frozen
    /\ frozen' = FALSE
    /\ value_pool' = Defaults
    /\ modification_cnt' = 0
    /\ config_mutex' = MutexFree
    /\ config_task' = [t \in Tasks |-> IdleConfigTask]
    /\ config_ret' = NoConfigReturn
    /\ config_call' = NoConfigCall
    /\ UNCHANGED << g_storage, outsideConfig >>

ConfigNext ==
    \/ \E t \in Tasks : initStart(t)
    \/ \E t \in Tasks : initReadHash(t)
    \/ \E t \in Tasks : initReadValues(t)
    \/ \E t \in Tasks : initReadCrc(t)
    \/ \E t \in Tasks, name \in Names, value \in SetValues : configSet(t, name, value)
    \/ \E t \in Tasks, name \in Names : configGet(t, name)
    \/ \E t \in Tasks : saveStart(t)
    \/ \E t \in Tasks : saveErase(t)
    \/ \E t \in Tasks : saveWriteHash(t)
    \/ \E t \in Tasks : saveWriteCrc(t)
    \/ \E t \in Tasks : saveWriteValues(t)
    \/ \E t \in Tasks : configErase(t)
    \/ \E t \in Tasks : getModificationCounter(t)
    \/ restart

ConfigSpec == ConfigInit /\ [][ConfigNext]_vars

(***************************************************************************)
(* Properties.  A step of a task t is told by its place before and after:  *)
(* the operation op returns in the step with pc[t] = op-stage and          *)
(* pc'[t] = "idle".                                                        *)
(***************************************************************************)
\* The places of a task inside an upgradeApp() that passed the state check.
UpgradeStages ==
    {"beginUpgrade", "download", "handleNextDataChunk", "write", "finalize", "endUpgrade"}

\* The storages of the model that hold an authentic image are those that
\* begin with GoodImage; GoodAppInfo is the app info of its descriptor.
HoldsAuthenticImage(st) == SubSeq(st, 1, Len(GoodImage)) = GoodImage

GoodAppInfo ==
    [image_crc     |-> SubSeq(GoodImage, 9, 16),
     image_size    |-> Len(GoodImage),
     vcs_commit    |-> << 7, 0, 0, 0 >>,
     major_version |-> 1,
     minor_version |-> 2]

\* The controller and the backend are as they were.
ControllerUntouched ==
    /\ cached_app_info_' = cached_app_info_
    /\ storage' = storage
    /\ upgrading' = upgrading
    /\ backend_call' = NoCall

\* C1: cancelBoot() sets the state to BootCancelled iff it is BootDelay or
\* ReadyToBoot, requestBoot() sets it to ReadyToBoot iff it is BootDelay or
\* BootCancelled; in every other state the call changes nothing, so a repeated
\* call changes nothing; neither touches the cached app info or the backend.
C1_CancelAndRequestBoot ==
    [][\A t \in Tasks :
        /\ (pc[t] = "cancelBoot" /\ pc'[t] = "idle") =>
            /\ state_' = (IF state_ \in {"BootDelay", "ReadyToBoot"}
                          THEN "BootCancelled" ELSE state_)
            /\ state_' \notin {"BootDelay", "ReadyToBoot"}
            /\ ControllerUntouched
        /\ (pc[t] = "requestBoot" /\ pc'[t] = "idle") =>
            /\ state_' = (IF state_ \in {"BootDelay", "BootCancelled"}
                          THEN "ReadyToBoot" ELSE state_)
            /\ state_' \notin {"BootDelay", "BootCancelled"}
            /\ ControllerUntouched
      ]_vars

\* cancelBoot() has returned, the boot is cancelled and the app info is kept.
C1_Witness ==
    /\ ret.op = "cancelBoot"
    /\ state_ = "BootCancelled"
    /\ cached_app_info_ = << GoodAppInfo >>

\* C2: upgradeApp() called in ReadyToBoot or AppUpgradeInProgress, and so any
\* upgradeApp() called while another task is in its download, returns
\* -ErrInvalidState = -10001, leaves the state, the cached app info and the
\* backend alone, does not reach the downloader and leaves the other task and
\* its sink where they are.
C2_UpgradeRejected ==
    [][\A t \in Tasks :
        (/\ pc[t] = "upgradeApp"
         /\ pc'[t] # "upgradeApp"
         /\ \/ state_ \in {"ReadyToBoot", "AppUpgradeInProgress"}
            \/ \E u \in Tasks \ {t} : pc[u] = "download")
        => /\ ret' = [task |-> t, op |-> "upgradeApp", val |-> -10001]
           /\ pc'[t] = "idle"
           /\ state_' = state_
           /\ ControllerUntouched
           /\ sink' = sink
           /\ res' = res
           /\ \A u \in Tasks \ {t} : pc'[u] = pc[u]
      ]_vars

\* A second upgradeApp() was rejected while the first is in its download.
C2_Witness ==
    /\ ret.op = "upgradeApp"
    /\ ret.val = -10001
    /\ \E u \in Tasks \ {ret.task} : pc[u] = "download" /\ sink[u].chunks = 1

\* C3: an upgradeApp() that fails after the state check (beginUpgrade()
\* negative, the download negative, or endUpgrade(true) negative) returns that
\* negative code, the error of the download even when endUpgrade(false) fails
\* too, and ends in BootCancelled if the storage it leaves holds an authentic
\* image, in NoAppToBoot otherwise; never in another state.
C3_FailedUpgrade ==
    [][\A t \in Tasks :
        /\ (pc[t] = "beginUpgrade" /\ pc'[t] # "beginUpgrade" /\ backend_call'.result < 0) =>
            /\ ret' = [task |-> t, op |-> "upgradeApp", val |-> backend_call'.result]
            /\ state_' = (IF HoldsAuthenticImage(storage')
                          THEN "BootCancelled" ELSE "NoAppToBoot")
        /\ (/\ pc[t] = "endUpgrade"
            /\ pc'[t] = "idle"
            /\ (res[t] < 0 \/ backend_call'.result < 0)) =>
            /\ ret' = [task |-> t, op |-> "upgradeApp",
                       val |-> IF res[t] < 0 THEN res[t] ELSE backend_call'.result]
            /\ state_' = (IF HoldsAuthenticImage(storage')
                          THEN "BootCancelled" ELSE "NoAppToBoot")
      ]_vars

\* The download failed with -20, endUpgrade(false) failed as well, -20 was
\* returned and the authentic image found in the storage is not booted.
C3_Witness ==
    /\ ret.op = "upgradeApp"
    /\ ret.val = -20
    /\ backend_call = [call |-> "endUpgrade", arg |-> << FALSE >>, result |-> -13]
    /\ state_ = "BootCancelled"

\* C4: when beginUpgrade(), the download and endUpgrade(true) all succeed,
\* upgradeApp() returns 0 whatever is in the storage: with an authentic image
\* the state is BootDelay, the boot delay starts now and the app info is
\* cached; otherwise the state is NoAppToBoot and no app info is cached.
C4_SuccessfulUpgrade ==
    [][\A t \in Tasks :
        (/\ pc[t] = "endUpgrade"
         /\ pc'[t] = "idle"
         /\ res[t] >= 0
         /\ backend_call'.result >= 0)
        => /\ ret' = [task |-> t, op |-> "upgradeApp", val |-> 0]
           /\ backend_call'.arg = << TRUE >>
           /\ IF HoldsAuthenticImage(storage')
              THEN /\ state_' = "BootDelay"
                   /\ boot_delay_started_at_st_' = now'
                   /\ cached_app_info_' = << GoodAppInfo >>
              ELSE /\ state_' = "NoAppToBoot"
                   /\ cached_app_info_' = << >>
      ]_vars

\* An upgrade made after the clock advanced returned 0 and left the state
\* BootDelay with the delay started at the time of its scan.
C4_Witness ==
    /\ ret.op = "upgradeApp"
    /\ ret.val = 0
    /\ state_ = "BootDelay"
    /\ now > 0
    /\ boot_delay_started_at_st_ = now
    /\ cached_app_info_ = << GoodAppInfo >>

\* C5: the backend sees beginUpgrade(), then write() calls, then one
\* endUpgrade().  upgrading tells that beginUpgrade() has succeeded and
\* endUpgrade() was not called since: it holds exactly while a task is between
\* the two; write() is called only then; beginUpgrade() is called only when it
\* does not hold; endUpgrade() is called only when it holds, ends it, and gets
\* success = false iff the download returned a negative result; a task leaves
\* upgradeApp() only at the state check, at a failed beginUpgrade(), which
\* reaches neither the downloader nor endUpgrade(), or at endUpgrade().
C5_BackendCallSequence ==
    [][/\ upgrading <=> \E t \in Tasks : pc[t] \in UpgradeStages \ {"beginUpgrade"}
       /\ backend_call'.call = "write" => upgrading /\ upgrading'
       /\ backend_call'.call = "beginUpgrade" =>
            /\ ~upgrading
            /\ upgrading' <=> backend_call'.result >= 0
       /\ backend_call'.call = "endUpgrade" =>
            /\ upgrading
            /\ ~upgrading'
            /\ \E t \in Tasks :
                /\ pc[t] = "endUpgrade"
                /\ pc'[t] = "idle"
                /\ backend_call'.arg = << ~(res[t] < 0) >>
       /\ \A t \in Tasks :
            /\ (pc[t] = "beginUpgrade" /\ pc'[t] # "beginUpgrade") =>
                /\ backend_call'.call = "beginUpgrade"
                /\ pc'[t] = (IF backend_call'.result < 0 THEN "idle" ELSE "download")
            /\ (pc[t] \in UpgradeStages /\ pc'[t] = "idle") =>
                \/ pc[t] = "beginUpgrade" /\ backend_call'.result < 0
                \/ pc[t] = "endUpgrade" /\ backend_call'.call = "endUpgrade"
      ]_vars

\* The second write() of a download, after beginUpgrade() and before
\* endUpgrade().
C5_Witness ==
    /\ backend_call.call = "write"
    /\ backend_call.arg[1] > 0
    /\ upgrading

\* The places where a task is inside a section that os::MutexLocker protects,
\* and those where it is inside a call of the backend.
LockedStages ==
    PublicOperations \cup {"beginUpgrade", "handleNextDataChunk", "write", "finalize", "endUpgrade"}

BackendStages == {"beginUpgrade", "write", "endUpgrade"}

\* C6: the controller state is read and changed, and the backend is called,
\* only by the task that holds the mutex: a task inside a protected section or
\* a backend call owns the mutex, at most one task is inside a backend call,
\* and every step that changes the controller state or the storage or calls
\* the backend is a step of the owner of the mutex, so that the protected
\* sections take effect one after another.
C6_MutexSerialisation ==
    /\ [](/\ \A t \in Tasks : pc[t] \in LockedStages => mutex_.owner = t /\ mutex_.cnt >= 1
          /\ \A t \in Tasks : \A u \in Tasks \ {t} :
                ~(pc[t] \in LockedStages /\ pc[u] \in LockedStages)
          /\ Cardinality({t \in Tasks : pc[t] \in BackendStages}) <= 1)
    /\ [][(\/ state_' # state_
           \/ cached_app_info_' # cached_app_info_
           \/ boot_delay_started_at_st_' # boot_delay_started_at_st_
           \/ storage' # storage
           \/ backend_call' # NoCall
           \/ ret' # NoReturn)
          => \E t \in Tasks :
                /\ mutex_.owner = t
                /\ pc[t] \in LockedStages
                /\ pc'[t] # pc[t]
                /\ \A u \in Tasks \ {t} : pc'[u] = pc[u]
         ]_vars

\* The sink of one task is inside backend_.write() with the mutex, taken once,
\* while the other task is outside of the controller.
C6_Witness ==
    \E t \in Tasks :
        /\ pc[t] = "write"
        /\ mutex_ = [owner |-> t, cnt |-> 1]
        /\ \A u \in Tasks \ {t} : pc[u] = "idle"
        /\ sink[t].chunks = 2

\* C7: while the downloader runs inside upgradeApp() the mutex is not held by
\* that task, and the state is AppUpgradeInProgress: the mutex is free, or held
\* by another task inside a public operation that needs nothing of the
\* download to return, so neither the other tasks nor the sink wait for the
\* download; getState() of another task returns AppUpgradeInProgress, and the
\* operations of the other tasks leave the download where it is.
C7_DownloadWithoutMutex ==
    /\ [](\A t \in Tasks :
            pc[t] = "download" =>
                /\ mutex_.owner # t
                /\ state_ = "AppUpgradeInProgress"
                /\ \/ mutex_ = [owner |-> NoTask, cnt |-> 0]
                   \/ /\ mutex_.owner \in Tasks \ {t}
                      /\ pc[mutex_.owner] \in PublicOperations)
    /\ [][\A t \in Tasks : \A u \in Tasks \ {t} :
            (pc[t] = "download" /\ pc[u] \in PublicOperations /\ pc'[u] # pc[u]) =>
                /\ pc'[u] = "idle"
                /\ ret'.task = u
                /\ ret'.op = pc[u]
                /\ pc[u] = "getState" => ret'.val = "AppUpgradeInProgress"
                /\ mutex_' = [owner |-> NoTask, cnt |-> 0]
                /\ pc'[t] = "download"
                /\ sink' = sink
                /\ state_' = "AppUpgradeInProgress"
         ]_vars

\* getState() of another task returned AppUpgradeInProgress between two
\* chunks of a download.
C7_Witness ==
    /\ ret.op = "getState"
    /\ ret.val = "AppUpgradeInProgress"
    /\ \E t \in Tasks \ {ret.task} : pc[t] = "download" /\ sink[t].chunks = 1

\* The ticks of the boot delay, a whole number of them in a millisecond.
BootDelayTicks == boot_delay_msec_ * (CH_CFG_ST_FREQUENCY \div 1000)

\* What holds of every promotion but the place where it is made: the boot
\* delay is taken from the scan that set BootDelay, getState() called before it
\* has elapsed returns BootDelay, and getState() called in BootDelay with a
\* boot delay of 0 returns ReadyToBoot.
BootDelayRules ==
    /\ (state_ # "BootDelay" /\ state_' = "BootDelay") => boot_delay_started_at_st_' = now'
    /\ (state_ = "BootDelay" /\ state_' = "BootDelay") =>
            boot_delay_started_at_st_' = boot_delay_started_at_st_
    /\ \A t \in Tasks :
        (pc[t] = "getState" /\ pc'[t] = "idle" /\ state_ = "BootDelay") =>
            /\ now - boot_delay_started_at_st_ < BootDelayTicks =>
                    state_' = "BootDelay" /\ ret'.val = "BootDelay"
            /\ now - boot_delay_started_at_st_ >= BootDelayTicks =>
                    state_' = "ReadyToBoot" /\ ret'.val = "ReadyToBoot"
            /\ boot_delay_msec_ = 0 => ret'.val = "ReadyToBoot"

\* C8 as stated: the state changes from BootDelay to ReadyToBoot only inside
\* getState(), and only when the boot delay has elapsed since the scan that
\* set BootDelay; getState() called earlier returns BootDelay, and with a boot
\* delay of 0 the first getState() after the scan returns ReadyToBoot.
C8_PromotionOnlyInGetState ==
    [][/\ (state_ = "BootDelay" /\ state_' = "ReadyToBoot") =>
            /\ \E t \in Tasks : pc[t] = "getState" /\ pc'[t] = "idle"
            /\ now - boot_delay_started_at_st_ >= BootDelayTicks
       /\ BootDelayRules
      ]_vars

\* C8, amended: the state changes from BootDelay to ReadyToBoot only inside
\* getState(), when the boot delay has elapsed since the scan that set
\* BootDelay, or inside requestBoot(), at any time; getState() called earlier
\* returns BootDelay, and with a boot delay of 0 the first getState() after
\* the scan returns ReadyToBoot.
C8_PromotionInGetStateOrRequestBoot ==
    [][/\ (state_ = "BootDelay" /\ state_' = "ReadyToBoot") =>
            \/ /\ \E t \in Tasks : pc[t] = "getState" /\ pc'[t] = "idle"
               /\ now - boot_delay_started_at_st_ >= BootDelayTicks
            \/ \E t \in Tasks : pc[t] = "requestBoot" /\ pc'[t] = "idle"
       /\ BootDelayRules
      ]_vars

\* getState() returned ReadyToBoot a millisecond after the scan of the
\* constructor, with a boot delay of a millisecond.
C8_Witness ==
    /\ ret.op = "getState"
    /\ ret.val = "ReadyToBoot"
    /\ boot_delay_msec_ = 1
    /\ boot_delay_started_at_st_ = 0
    /\ now = 2 * TickQuantum

\* C9: outside of an upgrade the cached app info is that of the descriptor of
\* the authentic image in the storage, and absent if there is none, which is
\* what the last scan found; it is absent iff the state is NoAppToBoot, the
\* state after construction is BootDelay or NoAppToBoot, and getAppInfo()
\* returns the cached app info.
C9_CachedAppInfo ==
    /\ (state_ = (IF HoldsAuthenticImage(storage) THEN "BootDelay" ELSE "NoAppToBoot"))
    /\ [](/\ (\A t \in Tasks : pc[t] \notin UpgradeStages) =>
                /\ cached_app_info_ =
                        (IF HoldsAuthenticImage(storage) THEN << GoodAppInfo >> ELSE << >>)
                /\ cached_app_info_ = << >> <=> state_ = "NoAppToBoot"
          /\ ret.op = "getAppInfo" => ret.val = cached_app_info_)

\* After the scan of an upgrade that failed, getAppInfo() returned the app
\* info of the image that the scan found.
C9_Witness ==
    /\ ret.op = "getAppInfo"
    /\ ret.val = << GoodAppInfo >>
    /\ state_ = "BootCancelled"
    /\ boot_delay_started_at_st_ = now
    /\ now > 0

\* C10: an upgradeApp() that passes the state check sets the state to
\* AppUpgradeInProgress and clears the cached app info in the step of the
\* check, before beginUpgrade() is called and before any write; the cached app
\* info stays absent while the state is AppUpgradeInProgress or a task is
\* inside that upgrade, and getAppInfo() of any task returns absent then.
C10_AppInfoInvalidated ==
    /\ []((state_ = "AppUpgradeInProgress" \/ \E t \in Tasks : pc[t] \in UpgradeStages) =>
            cached_app_info_ = << >>)
    /\ [][/\ \A t \in Tasks :
                (pc[t] = "upgradeApp" /\ pc'[t] = "beginUpgrade") =>
                    /\ state_' = "AppUpgradeInProgress"
                    /\ cached_app_info_' = << >>
                    /\ storage' = storage
                    /\ backend_call' = NoCall
          /\ \A t \in Tasks :
                (/\ pc[t] = "getAppInfo"
                 /\ pc'[t] = "idle"
                 /\ \E u \in Tasks : pc[u] \in UpgradeStages) => ret'.val = << >>
         ]_vars

\* getAppInfo() returned absent during a download that has written an
\* authentic image into the storage.
C10_Witness ==
    /\ ret.op = "getAppInfo"
    /\ ret.val = << >>
    /\ HoldsAuthenticImage(storage)
    /\ \E t \in Tasks \ {ret.task} : pc[t] = "download"

\* C11: a chunk with offset_ + size > max_image_size is rejected with
\* -ErrAppImageTooLarge, without a backend write and with offset_ unchanged; a
\* chunk ending at or before max_image_size goes on to the backend write; no
\* backend write extends past max_image_size.
C11_ImageTooLarge ==
    [][ /\ \A t \in Tasks :
            (pc[t] = "handleNextDataChunk" /\ pc'[t] # pc[t]) =>
                IF sink[t].offset_ + Len(sink[t].data) > MaxImageSize
                THEN /\ sink'[t].result = -10002
                     /\ sink'[t].offset_ = sink[t].offset_
                     /\ backend_call' = NoCall
                     /\ storage' = storage
                     /\ pc'[t] = "download"
                ELSE /\ pc'[t] = "write"
                     /\ sink'[t] = sink[t]
        /\ backend_call'.call = "write" =>
                backend_call'.arg[1] + backend_call'.arg[2] <= MaxImageSize
        /\ \A t \in Tasks : pc'[t] = "write" => pc[t] \in {"write", "handleNextDataChunk"}
      ]_vars

\* A second chunk was rejected as too large after a first one was written.
C11_Witness ==
    \E t \in Tasks : /\ sink[t].result = -10002
                     /\ sink[t].offset_ = Len(GoodImage)
                     /\ sink[t].chunks = 2
                     /\ pc[t] = "download"

\* C12: when backend_.write() acknowledges a non-negative count different from
\* the chunk size the sink returns -ErrAppStorageWriteFailure and keeps its
\* offset_; a fully acknowledged chunk returns a non-negative value.
C12_ShortWrite ==
    [][ \A t \in Tasks :
            (pc[t] = "write" /\ pc'[t] # pc[t]) =>
                /\ backend_call'.call = "write"
                /\ backend_call'.arg = << sink[t].offset_, Len(sink[t].data) >>
                /\ (backend_call'.result >= 0 /\ backend_call'.result # Len(sink[t].data)) =>
                        /\ sink'[t].result = -10003
                        /\ sink'[t].offset_ = sink[t].offset_
                /\ backend_call'.result = Len(sink[t].data) => sink'[t].result >= 0
      ]_vars

\* The second chunk of a download was acknowledged short of its size, after a
\* first chunk was acknowledged in full.
C12_Witness ==
    \E t \in Tasks : /\ backend_call.call = "write"
                     /\ backend_call.arg[1] > 0
                     /\ backend_call.result >= 0
                     /\ backend_call.result < backend_call.arg[2]
                     /\ sink[t].result = -10003
                     /\ sink[t].offset_ = backend_call.arg[1]

\* C16: get() after the ASCII bytes "123456789" is 0x62EC59E3F1A4F00A, and
\* get() after a byte sequence fed through add() in consecutive pieces, however
\* it was split, is the get() of an object fed the whole sequence in one call.
C16_CrcCheckValueAndSplit ==
    (crc64.got # << >> /\ crc64.fed = Len(crc64.data)) =>
        /\ crc64.got[1] = CrcGet(CrcAdd(CrcInit, crc64.data))
        /\ crc64.data = CheckString => crc64.got[1] = CheckValue

\* get() was called after "123456789" was fed whole (nine bytes in the last
\* add() or before), and the object still holds the state get() read.
C16_Witness ==
    /\ crc64.data = CheckString
    /\ crc64.fed = 9
    /\ crc64.got = << CheckValue >>

\* The bytes [0, image_size) of the storage with those of the 8 bytes at
\* offset + 8 that lie among them replaced by zeros.
ImageWindow(st, offset, image_size) ==
    IF offset + 8 >= image_size THEN SubSeq(st, 1, image_size)
    ELSE SubSeq(st, 1, offset + 8) \o ZeroCrcField \o SubSeq(st, offset + 17, image_size)

\* The storage holds an authentic descriptor at offset: a valid one whose
\* image_crc is the CRC-64-WE of the bytes [0, image_size) with the image_crc
\* field zeroed.
Authentic(st, offset, max_image_size) ==
    /\ offset + DescriptorSize <= Len(st)
    /\ SubSeq(st, offset + 1, offset + 8) = Signature
    /\ st[offset + 19] = 0 /\ st[offset + 20] = 0
    /\ \E image_size \in {st[offset + 17] + 256 * st[offset + 18]} :
        /\ image_size > 0
        /\ image_size <= max_image_size
        /\ image_size % 8 = 0
        /\ image_size <= Len(st)
        /\ SubSeq(st, offset + 9, offset + 16)
                = U64Bytes(CrcGet(CrcAdd(CrcInit, ImageWindow(st, offset, image_size))))

\* The 8-byte-aligned offsets of the storage that hold an authentic descriptor.
AuthenticOffsets(st, max_image_size) ==
    {offset \in {Step * k : k \in 0..(Len(st) \div Step)} :
        Authentic(st, offset, max_image_size)}

\* C13: a scan whose reads all gave what the storage holds returns the
\* authentic descriptor at the lowest 8-byte-aligned offset, whatever
\* signature-bearing positions that fail the size bounds or the CRC lie
\* before it.
C13_LowestAuthenticReturned ==
    (scanner.pc = "done" /\ scanner.faults = 0) =>
        \A offset \in AuthenticOffsets(storage, ScanMaxImageSize) :
            (\A lower \in AuthenticOffsets(storage, ScanMaxImageSize) : offset <= lower) =>
                /\ scanner.result.second
                /\ scanner.result.offset = offset

\* C14: the descriptor a scan returns is authentic, whatever the storage holds
\* and whatever its reads gave.
C14_OnlyAuthenticReturned ==
    (scanner.pc = "done" /\ scanner.result.second) =>
        Authentic(storage, scanner.result.offset, ScanMaxImageSize)

\* C15: the value a scan whose reads all gave what the storage holds compares
\* with image_crc of a valid descriptor is the CRC-64-WE of the bytes
\* [0, image_size) with the 8 bytes of the image_crc field replaced by zeros.
C15_CrcOfImageWindow ==
    (scanner.pc \in {"signature", "done"} /\ scanner.checked # << >> /\ scanner.faults = 0) =>
        scanner.checked[1].crc
            = CrcGet(CrcAdd(CrcInit, ImageWindow(storage, scanner.checked[1].offset,
                                                 scanner.checked[1].image_size)))


(***************************************************************************)
(* The firmware update node of loaders/uavcan.hpp: main() of its thread,   *)
(* loop iteration by loop iteration, on a CAN bus with an allocator, a     *)
(* firmware server and other nodes.  A transfer is what libcanard hands to *)
(* onTransferReception(): its type, data type ID, source node and payload. *)
(* The queue of frames to transmit is kept as the transfers handed to      *)
(* libcanard, whatever it returns: the node logs its error or drops it.    *)
(* NodeStatus and the contents of GetNodeInfo are left out.                *)
(***************************************************************************)
NodeIDAllocationDataTypeID == 1
GetNodeInfoDataTypeID == 1
BeginFirmwareUpdateDataTypeID == 40
FileReadDataTypeID == 48
RestartNodeDataTypeID == 5
MaxLenOfUniqueIDInRequest == 6
UniqueIDSize == 16
ErrRemoteRefusedToProvideFile == 30005
DownloadStub == -1

\* The time that passes in a poll() that receives nothing, in microseconds.
PollUSec == 500000

\* What std::rand() returns: 0, 3124 and RAND_MAX.
RandValues == {0, 3124, 2147483647}

\* getRandomDurationMicrosecond(lower_bound_usec, upper_bound_usec) when
\* std::rand() returns rnd: lower + (rnd * 128) % (upper - lower) in 64 bits,
\* where the product does not overflow; rnd is reduced first to keep the
\* product in 32 bits, which gives the same remainder.
getRandomDurationMicrosecond(lower_bound_usec, upper_bound_usec, rnd) ==
    lower_bound_usec
    + (((rnd % (upper_bound_usec - lower_bound_usec)) * 128)
       % (upper_bound_usec - lower_bound_usec))

\* The transfers handed to libcanard that are kept, the latest ones.
MaxQueued == 2

\* Variant: the candidates from the lowest bit rate up.
StandardBitRatesAscending == << 100000, 125000, 250000, 500000, 1000000 >>

StandardBitRates == << 1000000, 500000, 250000, 125000, 100000 >>

\* 0xACCE551B1E, most significant byte first.
RestartMagic == << 172, 206, 85, 27, 30 >>

\* hw_info_.unique_id of the nodes: 11 22 .. FF 00, and 01 02 .. 10.
UniqueIDs ==
    {<< 17, 34, 51, 68, 85, 102, 119, 136, 153, 170, 187, 204, 221, 238, 255, 0 >>,
     << 1, 2, 3, 4, 5, 6, 7, 8, 9, 10, 11, 12, 13, 14, 15, 16 >>}

Transfer(type, data_type_id, source_node_id, payload) ==
    [transfer_type |-> type, data_type_id |-> data_type_id,
     source_node_id |-> source_node_id, payload |-> payload]

NoTransfer == Transfer("none", 0, 0, << >>)

\* canardDecodeScalar(transfer, 0, 7, false, ..): the seven bits at bit offset
\* 0 are the upper seven bits of the first byte.
DecodeNodeID(payload) == payload[1] \div 2

\* canardDecodeScalar(transfer, 0, 40, false, ..): five bytes, the least
\* significant first; the value is given most significant byte first.
DecodeMagic(payload) ==
    << payload[5], payload[4], payload[3], payload[2], payload[1] >>

\* Variant: every allocation request carries the whole rest of the unique ID.
UidSizeUnlimited(offset) == UniqueIDSize - offset

\* uid_size of a request that starts at offset of the unique ID.
UidSize(offset) ==
    IF UniqueIDSize - offset > MaxLenOfUniqueIDInRequest
    THEN MaxLenOfUniqueIDInRequest
    ELSE UniqueIDSize - offset

\* allocation_request[0 .. uid_size] of performDynamicNodeIDAllocation().
AllocationRequest(n) ==
    Transfer("broadcast", NodeIDAllocationDataTypeID, 0,
             << IF n.node_id_allocation_unique_id_offset_ = 0 THEN 1 ELSE 0 >>
             \o SubSeq(n.unique_id, n.node_id_allocation_unique_id_offset_ + 1,
                       n.node_id_allocation_unique_id_offset_
                       + UidSize(n.node_id_allocation_unique_id_offset_)))

\* canardBroadcast(), canardRequestOrRespond(): the transfer joins the queue.
Queued(queued, transfer) ==
    IF Len(queued) < MaxQueued THEN Append(queued, transfer)
    ELSE Append(Tail(queued), transfer)

\* shouldAcceptTransfer()
shouldAcceptTransfer(n, transfer) ==
    IF n.local_node_id = 0
    THEN /\ transfer.transfer_type = "broadcast"
         /\ transfer.data_type_id = NodeIDAllocationDataTypeID
    ELSE \/ /\ transfer.transfer_type = "request"
            /\ transfer.data_type_id \in {GetNodeInfoDataTypeID, BeginFirmwareUpdateDataTypeID,
                                          RestartNodeDataTypeID}
         \/ /\ transfer.transfer_type = "response"
            /\ transfer.data_type_id = FileReadDataTypeID

\* The branch of onTransferReception() for the allocation protocol; rnd and
\* short_rnd are what std::rand() returns for the two random durations, and
\* send_deadline is send_next_node_id_allocation_request_at_ less the time
\* now, in microseconds.
AllocationResponse(n, transfer, rnd, short_rnd) ==
    IF transfer.source_node_id = 0
    THEN [n EXCEPT !.send_deadline = getRandomDurationMicrosecond(600000, 1000000, rnd),
                   !.node_id_allocation_unique_id_offset_ = 0]
    ELSE IF SubSeq(transfer.payload, 2, Len(transfer.payload))
                # SubSeq(n.unique_id, 1, Len(transfer.payload) - 1)
    THEN [n EXCEPT !.send_deadline = getRandomDurationMicrosecond(600000, 1000000, rnd),
                   !.node_id_allocation_unique_id_offset_ = 0]
    ELSE IF Len(transfer.payload) - 1 < UniqueIDSize
    THEN [n EXCEPT !.send_deadline = getRandomDurationMicrosecond(0, 400000, short_rnd),
                   !.node_id_allocation_unique_id_offset_ = Len(transfer.payload) - 1]
    ELSE [n EXCEPT !.send_deadline = getRandomDurationMicrosecond(600000, 1000000, rnd),
                   !.local_node_id = DecodeNodeID(transfer.payload)]

\* The loop of onTransferReception() that copies payload_len - 1U bytes into
\* received_unique_id[16] runs over the end of the array: payload_len - 1U is
\* unsigned, 2^32 - 1 for an empty payload.  Its assert() fails when
\* assertions are compiled in, and the behaviour is undefined when not.
CopyOverruns(transfer) ==
    /\ transfer.source_node_id # 0
    /\ \/ Len(transfer.payload) = 0
       \/ Len(transfer.payload) - 1 > UniqueIDSize

\* The node after an allocation broadcast whose copy overruns.  With
\* assertions the thread halts in assert(received_unique_id_len < 16).
\* Without, an empty payload keeps the loop running for ever, as the eight
\* bits of received_unique_id_len stay below payload_len - 1; a payload of
\* more than 17 bytes writes and compares beyond the 16 bytes of the two
\* arrays, and the comparison finds a mismatch or, where the 16 bytes match,
\* may find none and take the first byte for the node ID.
OverrunOutcomes(n, transfer, rnd) ==
    {[n EXCEPT !.pc = "halted",
               !.send_deadline = getRandomDurationMicrosecond(600000, 1000000, rnd)]}
    \cup (IF transfer.payload = << >> THEN {}
          ELSE {[n EXCEPT !.send_deadline = getRandomDurationMicrosecond(600000, 1000000, rnd),
                          !.node_id_allocation_unique_id_offset_ = 0]}
               \cup (IF SubSeq(transfer.payload, 2, UniqueIDSize + 1) = n.unique_id
                     THEN {[n EXCEPT
                                !.send_deadline =
                                    getRandomDurationMicrosecond(600000, 1000000, rnd),
                                !.local_node_id = DecodeNodeID(transfer.payload)]}
                     ELSE {}))

\* Variant: any RestartNode request is obeyed.
RestartRequestedAlways(transfer) ==
    /\ transfer.transfer_type = "request"
    /\ transfer.data_type_id = RestartNodeDataTypeID

\* The condition of onTransferReception() for the reboot.
RestartRequested(transfer) ==
    /\ transfer.transfer_type = "request"
    /\ transfer.data_type_id = RestartNodeDataTypeID
    /\ DecodeMagic(transfer.payload) = RestartMagic

\* The responses onTransferReception() queues: GetNodeInfo, RestartNode.
Responses(transfer) ==
    (IF transfer.transfer_type = "request" /\ transfer.data_type_id = GetNodeInfoDataTypeID
     THEN << Transfer("response", GetNodeInfoDataTypeID, transfer.source_node_id, << >>) >>
     ELSE << >>)
    \o (IF RestartRequested(transfer)
        THEN << Transfer("response", RestartNodeDataTypeID, transfer.source_node_id, << 128 >>) >>
        ELSE << >>)

RECURSIVE QueuedAll(_, _)
QueuedAll(queued, transfers) ==
    IF transfers = << >> THEN queued
    ELSE QueuedAll(Queued(queued, Head(transfers)), Tail(transfers))

\* onTransferReception(transfer): the node after it.
onTransferReception(n, transfer, rnd, short_rnd) ==
    \E allocated \in (IF /\ n.local_node_id = 0
                         /\ transfer.transfer_type = "broadcast"
                         /\ transfer.data_type_id = NodeIDAllocationDataTypeID
                      THEN IF CopyOverruns(transfer)
                           THEN OverrunOutcomes(n, transfer, rnd)
                           ELSE {AllocationResponse(n, transfer, rnd, short_rnd)}
                      ELSE {n}) :
        /\ node' = [allocated EXCEPT !.queued = QueuedAll(@, Responses(transfer))]
        /\ reboot_request_flag' = (reboot_request_flag \/ RestartRequested(transfer))

\* The allocator answers with what it has received of the unique ID, and with
\* the node ID once it has all of it.
Echo(received, node_id) ==
    Transfer("broadcast", NodeIDAllocationDataTypeID, 127,
             << IF Len(received) = UniqueIDSize THEN node_id * 2 ELSE 0 >> \o received)

\* What the allocator has of the unique ID after a request.
AllocatorReceived(received, request) ==
    IF request.payload[1] = 1 THEN Tail(request.payload)
    ELSE received \o Tail(request.payload)

\* The allocation broadcasts of a bus whose allocator answers at will, next
\* to a node with another unique ID.
AllocationTransfers(n, node_id) ==
    {Echo(SubSeq(n.unique_id, 1, len), node_id) : len \in {6, 12, UniqueIDSize}}
    \cup {Echo(<< 1, 2, 3, 4, 5, 7 >>, node_id),
          Transfer("broadcast", NodeIDAllocationDataTypeID, 0, << 1, 1, 2, 3, 4, 5, 6 >>),
          Transfer("broadcast", NodeIDAllocationDataTypeID, 127, << >>),
          Transfer("broadcast", NodeIDAllocationDataTypeID, 127,
                   << 2 * node_id >> \o n.unique_id \o << 0 >>)}

\* The service transfers addressed to the node: RestartNode with the magic
\* number, with its bytes in the other order and with 0xAD for 0xAC, GetNodeInfo,
\* BeginFirmwareUpdate from server 10 for the file "f", a FileRead response.
ServiceTransfers ==
    {Transfer("request", RestartNodeDataTypeID, 10, << 30, 27, 85, 206, 172 >>),
     Transfer("request", RestartNodeDataTypeID, 10, << 172, 206, 85, 27, 30 >>),
     Transfer("request", RestartNodeDataTypeID, 10, << 30, 27, 85, 206, 173 >>),
     Transfer("request", GetNodeInfoDataTypeID, 10, << >>),
     Transfer("request", BeginFirmwareUpdateDataTypeID, 10, << 10, 102 >>),
     Transfer("response", FileReadDataTypeID, 10, << 0, 0, 1, 2, 3 >>)}

\* start(thread_priority, can_bus_bit_rate, node_id, remote_server_node_id,
\* remote_file_path), and main() about to run.  detection holds what initCAN()
\* and receive() have returned in the last iteration of the bit rate detection
\* while the detection runs.
Started(unique_id, can_bus_bit_rate, node_id, remote_server_node_id, remote_file_path) ==
    [pc |-> "bit_rate",
     unique_id |-> unique_id,
     can_bus_bit_rate_ |-> can_bus_bit_rate,
     current_bit_rate_index |-> 0,
     detection |-> << >>,
     local_node_id |-> IF node_id >= 1 /\ node_id <= 127 THEN node_id ELSE 0,
     confirmed_local_node_id_ |-> 0,
     remote_server_node_id_ |->
        IF remote_server_node_id >= 1 /\ remote_server_node_id <= 127
        THEN remote_server_node_id ELSE 0,
     firmware_file_path_ |->
        IF remote_server_node_id >= 1 /\ remote_server_node_id <= 127
        THEN remote_file_path ELSE << >>,
     send_deadline |-> 0,
     node_id_allocation_unique_id_offset_ |-> 0,
     node_health_ |-> "Ok",
     node_mode_ |-> "Maintenance",
     queued |-> << >>,
     download |-> << >>,
     result |-> 0]

\* The bus at start: its allocator answers every request before the node
\* sends the next (reliable) or at will, and hands out node_id; requests are
\* the requests that allocator has answered, delivered is the last transfer
\* that libcanard has handed to the node; init_fails is the driver that
\* cannot be initialised; mode and bit_rate are those of the last init() that
\* succeeded.
BusAtStart(reliable, init_fails, node_id) ==
    [mode |-> "none", bit_rate |-> 0, reliable |-> reliable, init_fails |-> init_fails,
     node_id |-> node_id, received |-> << >>,
     requests |-> << >>, pending |-> << >>, delivered |-> NoTransfer]

NodeInit ==
    /\ \E unique_id \in UniqueIDs, can_bus_bit_rate \in {0, 500000}, node_id \in {0, 42},
          remote_server_node_id \in {0, 10} :
            node = Started(unique_id, can_bus_bit_rate, node_id, remote_server_node_id, << 102 >>)
    /\ \E reliable, init_fails \in BOOLEAN : can_bus = BusAtStart(reliable, init_fails, 125)
    /\ reboot_request_flag = FALSE
    /\ watchdog = WatchdogOff
    /\ ConfigNotInitialised(ErasedConfig)
    /\ crc64 = CrcIdle
    /\ scanner = ScannerIdle
    /\ storage = BlankStorage
    /\ boot_delay_msec_ = 0
    /\ now = 0
    /\ state_ = "NoAppToBoot"
    /\ cached_app_info_ = << >>
    /\ boot_delay_started_at_st_ = 0
    /\ mutex_ = MutexFree
    /\ upgrading = FALSE
    /\ backend_call = NoCall
    /\ pc = [t \in Tasks |-> "idle"]
    /\ ret = NoReturn
    /\ res = [t \in Tasks |-> 0]
    /\ sink = [t \in Tasks |-> NewSink]
    /\ assert_failed = FALSE

\* The variables the node leaves alone.
outsideNode == << controllerVars, crc64, scanner, configVars, watchdog >>

\* What iface_.init() returns: an error whenever it likes, and every time
\* when the driver cannot be initialised.
InitResults == IF can_bus.init_fails THEN {-1} ELSE {0, -1}

\* What iface_.receive() returns for its status.
ReceiveResults == {1, 0, -1}

\* main() after performDynamicNodeIDAllocation(), or with a node ID given:
\* return when a reboot is requested, else confirm the node ID.  send_deadline
\* is the time left until send_next_node_id_allocation_request_at_, which
\* nothing reads from here on: it is let run out.
AfterAllocation(n) ==
    IF reboot_request_flag THEN [n EXCEPT !.pc = "terminated", !.send_deadline = 0]
    ELSE [n EXCEPT !.pc = "main_init", !.send_deadline = 0,
                   !.confirmed_local_node_id_ = n.local_node_id]

\* main() after performCANBitRateDetection(), or with a bit rate given.
AfterDetection(n) ==
    IF reboot_request_flag
    THEN [n EXCEPT !.pc = "terminated", !.current_bit_rate_index = 0, !.detection = << >>]
    ELSE IF n.local_node_id = 0
    THEN [n EXCEPT !.pc = "alloc_init", !.current_bit_rate_index = 0, !.detection = << >>]
    ELSE AfterAllocation([n EXCEPT !.current_bit_rate_index = 0, !.detection = << >>])

\* An iteration of the loop of performCANBitRateDetection(), or its end.
detectBitRate ==
    /\ node.pc = "bit_rate"
    /\ IF reboot_request_flag \/ node.can_bus_bit_rate_ # 0
       THEN /\ node' = AfterDetection(node)
            /\ UNCHANGED can_bus
       ELSE \E init_res \in InitResults, receive_res \in ReceiveResults :
            /\ node' = [node EXCEPT
                    !.current_bit_rate_index = (@ + 1) % Len(StandardBitRates),
                    !.detection = IF init_res >= 0 THEN << init_res, receive_res >>
                                  ELSE << init_res >>,
                    !.can_bus_bit_rate_ =
                        IF init_res >= 0 /\ receive_res > 0
                        THEN StandardBitRates[node.current_bit_rate_index + 1] ELSE 0]
            /\ can_bus' = IF init_res >= 0
                          THEN [can_bus EXCEPT
                                    !.mode = "Silent",
                                    !.bit_rate = StandardBitRates[node.current_bit_rate_index + 1]]
                          ELSE can_bus
    /\ UNCHANGED << reboot_request_flag, outsideNode >>

\* An iteration of the first loop of performDynamicNodeIDAllocation():
\* initCAN(), and sleep(1) when it fails.
allocInit ==
    /\ node.pc = "alloc_init"
    /\ \E init_res \in InitResults :
        IF init_res >= 0
        THEN /\ node' = [node EXCEPT !.pc = "alloc"]
             /\ can_bus' = [can_bus EXCEPT !.mode = "AutomaticTxAbortOnError",
                                           !.bit_rate = node.can_bus_bit_rate_]
        ELSE UNCHANGED << node, can_bus >>
    /\ UNCHANGED << reboot_request_flag, outsideNode >>

\* The head of the allocation loop: its condition, the next deadline.
allocLoop ==
    /\ node.pc = "alloc"
    /\ IF reboot_request_flag \/ node.local_node_id # 0
       THEN node' = AfterAllocation(node)
       ELSE \E rnd \in RandValues :
                node' = [node EXCEPT
                            !.pc = "alloc_poll",
                            !.send_deadline = getRandomDurationMicrosecond(600000, 1000000, rnd)]
    /\ UNCHANGED << reboot_request_flag, can_bus, outsideNode >>

\* The transfers poll() can receive while the node waits to send a request.
AllocationOffers ==
    IF can_bus.reliable
    THEN IF can_bus.pending # << >> THEN {can_bus.pending[1]} ELSE {NoTransfer}
    ELSE {NoTransfer} \cup AllocationTransfers(node, can_bus.node_id)
         \cup {Transfer("request", RestartNodeDataTypeID, 10, << 30, 27, 85, 206, 172 >>)}

\* poll(): a transfer is received and handled, or time passes.
Poll(transfer) ==
    IF transfer = NoTransfer
    THEN /\ node' = [node EXCEPT !.send_deadline = IF @ > PollUSec THEN @ - PollUSec ELSE 0]
         /\ UNCHANGED << reboot_request_flag, can_bus >>
    ELSE IF shouldAcceptTransfer(node, transfer)
         THEN /\ can_bus' = [can_bus EXCEPT !.pending = << >>, !.delivered = transfer]
              /\ IF node.local_node_id = 0
                 THEN \E rnd \in RandValues, short_rnd \in RandValues :
                        onTransferReception(node, transfer, rnd, short_rnd)
                 ELSE onTransferReception(node, transfer, 0, 0)
         ELSE /\ can_bus' = [can_bus EXCEPT !.pending = << >>]
              /\ UNCHANGED << node, reboot_request_flag >>

\* An iteration of the loop that polls until the deadline of the next request.
allocPoll ==
    /\ node.pc = "alloc_poll"
    /\ node.send_deadline > 0
    /\ node.local_node_id = 0
    /\ \E transfer \in AllocationOffers : Poll(transfer)
    /\ UNCHANGED outsideNode

\* After that loop: the break with a node ID, or the next allocation request.
allocRequest ==
    /\ node.pc = "alloc_poll"
    /\ node.send_deadline = 0 \/ node.local_node_id # 0
    /\ IF node.local_node_id # 0
       THEN /\ node' = AfterAllocation(node)
            /\ UNCHANGED can_bus
       ELSE \E request \in {AllocationRequest(node)} :
            /\ node' = [node EXCEPT
                    !.pc = "alloc",
                    !.queued = Queued(@, request),
                    !.node_id_allocation_unique_id_offset_ = 0]
            /\ can_bus' =
                IF can_bus.reliable
                THEN [can_bus EXCEPT
                        !.received = AllocatorReceived(@, request),
                        !.requests = Append(@, request),
                        !.pending = << Echo(AllocatorReceived(can_bus.received, request),
                                            can_bus.node_id) >>]
                ELSE can_bus
    /\ UNCHANGED << reboot_request_flag, outsideNode >>

\* An iteration of the loop of main() that installs the filter of the
\* services: initCAN(), and sleep(1) when it fails.
mainInit ==
    /\ node.pc = "main_init"
    /\ \E init_res \in InitResults :
        IF init_res >= 0
        THEN /\ node' = [node EXCEPT !.pc = "main"]
             /\ can_bus' = [can_bus EXCEPT !.mode = "Normal",
                                           !.bit_rate = node.can_bus_bit_rate_]
        ELSE UNCHANGED << node, can_bus >>
    /\ UNCHANGED << reboot_request_flag, outsideNode >>

\* Variant: the mode is left as it is.
BeforeUpgradeInMaintenance(n) ==
    IF reboot_request_flag THEN [n EXCEPT !.pc = "terminated"]
    ELSE [n EXCEPT !.pc = "upgrade", !.node_health_ = "Ok"]

\* main() from the end of its wait to the call of upgradeApp().
BeforeUpgrade(n) ==
    IF reboot_request_flag THEN [n EXCEPT !.pc = "terminated"]
    ELSE [n EXCEPT !.pc = "upgrade", !.node_mode_ = "SoftwareUpdate", !.node_health_ = "Ok"]

\* The head of the main loop.
mainLoop ==
    /\ node.pc = "main"
    /\ node' = IF reboot_request_flag THEN [node EXCEPT !.pc = "terminated"]
               ELSE IF node.remote_server_node_id_ = 0 THEN [node EXCEPT !.pc = "wait"]
               ELSE BeforeUpgrade(node)
    /\ UNCHANGED << reboot_request_flag, can_bus, outsideNode >>

\* The transfers poll() can receive while the node waits for a request.
WaitOffers ==
    {NoTransfer} \cup ServiceTransfers
    \cup {Echo(SubSeq(node.unique_id, 1, 6), can_bus.node_id)}

\* An iteration of the loop that waits for the firmware update request, or
\* its end.
waitPoll ==
    /\ node.pc = "wait"
    /\ IF ~reboot_request_flag /\ node.remote_server_node_id_ = 0
       THEN \E transfer \in WaitOffers : Poll(transfer)
       ELSE /\ node' = BeforeUpgrade(node)
            /\ UNCHANGED << reboot_request_flag, can_bus >>
    /\ UNCHANGED outsideNode

\* What upgradeApp() returns before it calls the downloader.
UpgradeRefusals == {-ErrInvalidState, -5}

\* download(sink) of the node.
download(n) == [n EXCEPT !.download = << DownloadStub >>]

\* bootloader_.upgradeApp(*this) and the rest of the iteration of the main
\* loop: the controller refuses, or it calls download() and returns its error.
upgradeApp ==
    /\ node.pc = "upgrade"
    /\ \E downloaded \in {download(node)} :
       \E n \in {[node EXCEPT !.result = refusal] : refusal \in UpgradeRefusals}
                \cup {[downloaded EXCEPT !.result = downloaded.download[1]]} :
            node' = [n EXCEPT !.pc = "main",
                              !.node_health_ = IF n.result >= 0 THEN "Ok" ELSE "Error",
                              !.node_mode_ = "Maintenance",
                              !.remote_server_node_id_ = 0,
                              !.firmware_file_path_ = << >>]
    /\ UNCHANGED << reboot_request_flag, can_bus, outsideNode >>

\* os::requestReboot() called by another part of the firmware.
requestReboot ==
    /\ node.pc # "terminated"
    /\ ~reboot_request_flag
    /\ reboot_request_flag' = TRUE
    /\ UNCHANGED << node, can_bus, outsideNode >>

\* The steps of the thread of the node.
NodeStep ==
    \/ detectBitRate
    \/ allocInit
    \/ allocLoop
    \/ allocPoll
    \/ allocRequest
    \/ mainInit
    \/ mainLoop
    \/ waitPoll
    \/ upgradeApp

NodeNext ==
    \/ detectBitRate
    \/ allocInit
    \/ allocLoop
    \/ allocPoll
    \/ allocRequest
    \/ mainInit
    \/ mainLoop
    \/ waitPoll
    \/ upgradeApp
    \/ requestReboot

NodeSpec == NodeInit /\ [][NodeNext]_vars

\* The scheduler runs the thread of the node whenever it can take a step.
NodeFairSpec == NodeSpec /\ WF_vars(NodeStep)

(***************************************************************************)
(* platform/stm32/watchdog_stm32.cpp: the logical watchdogs that share the *)
(* independent watchdog of the MCU, called from several threads.  A 32-bit *)
(* word is the set of the numbers of its bits that are 1.                  *)
(***************************************************************************)
KR_KEY_ACCESS == 21845
KR_KEY_RELOAD == 43690
KR_KEY_ENABLE == 52428
MAX_RELOAD_VAL == 4095
MAX_NUM_WATCHDOGS == 31

\* The watchdogs the application creates first, and the last ones it creates
\* once start-up code has created all the others; these are the watchdogs
\* that are reset, the others are not reset after their creation.
MaxEarlyWatchdogs == 3
LateWatchdogs == 2

\* The timeout of the watchdogs created by start-up code, ms.
StartupTimeout == 60

\* The timeouts the callers of watchdogCreate() ask for, ms.
Timeouts == {0, StartupTimeout, 30000}

\* 1U << n
Bit(n) == {n}

\* (1U << n) - 1, n <= 31
BitsBelow(n) == 0 .. (n - 1)

\* setTimeout(): unsigned reload_value = timeout_ms / 6, at most MAX_RELOAD_VAL
reload_value(timeout_ms) ==
    IF timeout_ms \div 6 > MAX_RELOAD_VAL THEN MAX_RELOAD_VAL ELSE timeout_ms \div 6

\* A thread outside watchdogCreate(), and the locals of watchdogCreate().
IdleCaller == [pc |-> "idle", timeout_ms |-> 0, new_id |-> -1]

NoWatchdogReturn == [task |-> NoTask, op |-> "none", val |-> 0]

\* The module after watchdogInit() and n calls of watchdogCreate(timeout_ms)
\* with no watchdogReset() between them: _mask, _num_watchdogs and
\* _wdg_timeout_ms, the value last written to IWDG->RLR, the keys written to
\* IWDG->KR in the last step, where each thread is, and what returned in the
\* last step.
Created(n, timeout_ms) ==
    [initialised |-> TRUE, mask |-> BitsBelow(n), num_watchdogs |-> n,
     wdg_timeout_ms |-> timeout_ms, rlr |-> reload_value(timeout_ms), kr |-> << >>,
     caller |-> [t \in Tasks |-> IdleCaller], ret |-> NoWatchdogReturn]

\* watchdogInit(): _mask = 0, _num_watchdogs = 0; _wdg_timeout_ms is 0 from
\* its initializer.
watchdogInit == Created(0, 0)

WatchdogInit ==
    /\ watchdog \in {watchdogInit,
                     Created(MAX_NUM_WATCHDOGS - LateWatchdogs, StartupTimeout)}
    /\ NodeNotStarted
    /\ ConfigNotInitialised(ErasedConfig)
    /\ crc64 = CrcIdle
    /\ scanner = ScannerIdle
    /\ storage = BlankStorage
    /\ boot_delay_msec_ = 0
    /\ now = 0
    /\ state_ = "NoAppToBoot"
    /\ cached_app_info_ = << >>
    /\ boot_delay_started_at_st_ = 0
    /\ mutex_ = MutexFree
    /\ upgrading = FALSE
    /\ backend_call = NoCall
    /\ pc = [t \in Tasks |-> "idle"]
    /\ ret = NoReturn
    /\ res = [t \in Tasks |-> 0]
    /\ sink = [t \in Tasks |-> NewSink]
    /\ assert_failed = FALSE

\* The variables the watchdog leaves alone.
outsideWatchdog == << controllerVars, crc64, scanner, configVars, nodeVars >>

\* The watchdogs whose numbers the model lets exist: the early and the late.
Modelled(id) == id < MaxEarlyWatchdogs \/ id >= MAX_NUM_WATCHDOGS - LateWatchdogs

\* The IDs a thread may hold: those that watchdogCreate() has returned.
ReturnedIDs(w) ==
    {id \in BitsBelow(w.num_watchdogs) : \A t \in Tasks : w.caller[t].new_id # id}

\* watchdogCreate(timeout_ms) up to the end of its critical section: -1 is
\* returned, or new_id is taken and its bit of _mask is set.
AfterCreate(w, t, timeout_ms) ==
    IF timeout_ms <= 0 \/ w.num_watchdogs >= MAX_NUM_WATCHDOGS
    THEN [w EXCEPT !.ret = [task |-> t, op |-> "watchdogCreate", val |-> -1], !.kr = << >>]
    ELSE [w EXCEPT !.num_watchdogs = @ + 1,
                   !.mask = @ \cup Bit(w.num_watchdogs),
                   !.caller[t] = [pc |-> "compare", timeout_ms |-> timeout_ms,
                                  new_id |-> w.num_watchdogs],
                   !.ret = NoWatchdogReturn,
                   !.kr = << >>]

\* int watchdogCreate(unsigned timeout_ms), called by thread t
watchdogCreate(t) ==
    /\ watchdog.caller[t].pc = "idle"
    /\ Modelled(watchdog.num_watchdogs)
    /\ \E timeout_ms \in Timeouts : watchdog' = AfterCreate(watchdog, t, timeout_ms)
    /\ UNCHANGED outsideWatchdog

\* watchdogCreate(): if (timeout_ms > _wdg_timeout_ms), outside the critical
\* section; return new_id when it is not.
watchdogCreateCompare(t) ==
    /\ watchdog.caller[t].pc = "compare"
    /\ watchdog' =
        IF watchdog.caller[t].timeout_ms > watchdog.wdg_timeout_ms
        THEN [watchdog EXCEPT !.caller[t].pc = "setTimeout", !.ret = NoWatchdogReturn,
                              !.kr = << >>]
        ELSE [watchdog EXCEPT !.caller[t] = IdleCaller, !.kr = << >>,
                              !.ret = [task |-> t, op |-> "watchdogCreate",
                                       val |-> watchdog.caller[t].new_id]]
    /\ UNCHANGED outsideWatchdog

\* setTimeout(timeout_ms), called by watchdogCreate(): the reload value is
\* written and the IWDG is reloaded and enabled.
setTimeout(t) ==
    /\ watchdog.caller[t].pc = "setTimeout"
    /\ watchdog' = [watchdog EXCEPT
                        !.rlr = reload_value(watchdog.caller[t].timeout_ms),
                        !.kr = << KR_KEY_RELOAD, KR_KEY_ACCESS, KR_KEY_RELOAD, KR_KEY_ENABLE >>,
                        !.caller[t].pc = "store",
                        !.ret = NoWatchdogReturn]
    /\ UNCHANGED outsideWatchdog

\* watchdogCreate(): _wdg_timeout_ms = timeout_ms; return new_id
watchdogCreateStore(t) ==
    /\ watchdog.caller[t].pc = "store"
    /\ watchdog' = [watchdog EXCEPT
                        !.wdg_timeout_ms = watchdog.caller[t].timeout_ms,
                        !.caller[t] = IdleCaller,
                        !.kr = << >>,
                        !.ret = [task |-> t, op |-> "watchdogCreate",
                                 val |-> watchdog.caller[t].new_id]]
    /\ UNCHANGED outsideWatchdog

\* Variant: valid_bits_mask without the bit of the last watchdog.
ResetReloadsButLast(w, id) ==
    (w.mask \cup Bit(id)) \cap BitsBelow(w.num_watchdogs - 1) = BitsBelow(w.num_watchdogs - 1)

\* watchdogReset(): (_mask & valid_bits_mask) == valid_bits_mask after
\* _mask |= 1U << id
ResetReloads(w, id) ==
    (w.mask \cup Bit(id)) \cap BitsBelow(w.num_watchdogs) = BitsBelow(w.num_watchdogs)

\* The module after watchdogReset(id).
AfterReset(w, t, id) ==
    [w EXCEPT !.mask = IF ResetReloads(w, id) THEN {} ELSE @ \cup Bit(id),
              !.kr = IF ResetReloads(w, id) THEN << KR_KEY_RELOAD >> ELSE << >>,
              !.ret = [task |-> t, op |-> "watchdogReset", val |-> id]]

\* void watchdogReset(int id), called by thread t with the ID of a watchdog
\* that is reset
watchdogReset(t) ==
    /\ watchdog.caller[t].pc = "idle"
    /\ \E id \in {i \in ReturnedIDs(watchdog) : Modelled(i)} :
            watchdog' = AfterReset(watchdog, t, id)
    /\ UNCHANGED outsideWatchdog

WatchdogNext ==
    \/ \E t \in Tasks : watchdogCreate(t)
    \/ \E t \in Tasks : watchdogCreateCompare(t)
    \/ \E t \in Tasks : setTimeout(t)
    \/ \E t \in Tasks : watchdogCreateStore(t)
    \/ \E t \in Tasks : watchdogReset(t)

WatchdogSpec == WatchdogInit /\ [][WatchdogNext]_vars

(***************************************************************************)
(* The configuration store against its specification.                      *)
(***************************************************************************)
\* is_valid(param, value) as the specification of the store defines it: finite;
\* for Bool, 0 or 1; for Int, an integer with |value| < 2^24 and
\* min <= value <= max; for Float, min <= value <= max.
SpecValid(descr, value) ==
    /\ value.class = "finite"
    /\ descr.type = "CONFIG_TYPE_BOOL" => value.halves \in {0, 2}
    /\ descr.type = "CONFIG_TYPE_INT" =>
            /\ value.halves % 2 = 0
            /\ value.halves < 2 ^ 25
            /\ -value.halves < 2 ^ 25
    /\ descr.type \in {"CONFIG_TYPE_INT", "CONFIG_TYPE_FLOAT"} =>
            /\ descr.min.halves <= value.halves
            /\ value.halves <= descr.max.halves

\* The stored values with every value that is not valid by SpecValid replaced
\* by the default of its parameter.
SpecValidated(pool) ==
    [i \in 1..num_params |-> IF SpecValid(Params[i], pool[i]) THEN pool[i]
                             ELSE Params[i].default_]

\* A call of set() or get() returns in this step.
SetReturns == config_ret'.op = "set"
GetReturns == config_ret'.op = "get"

\* C17: set(name, value) returns -ENOENT when no parameter is registered under
\* name and -EINVAL when the value is not valid for the parameter, and then no
\* value and not the modification counter changes; otherwise it stores the
\* value for that parameter alone, adds one to the modification counter and
\* returns 0.  get(name) returns the value held for name, NaN for an unknown
\* name.
C17_SetAndGet ==
    [][/\ SetReturns =>
            \E index \in {indexByName(config_ret'.name)} :
                IF index = 0
                THEN /\ config_ret'.val = -ENOENT
                     /\ UNCHANGED << value_pool, modification_cnt >>
                ELSE IF ~SpecValid(Params[index], config_ret'.value)
                THEN /\ config_ret'.val = -EINVAL
                     /\ UNCHANGED << value_pool, modification_cnt >>
                ELSE /\ config_ret'.val = 0
                     /\ value_pool' = [value_pool EXCEPT ![index] = config_ret'.value]
                     /\ modification_cnt' = modification_cnt + 1
       /\ GetReturns =>
            \E index \in {indexByName(config_ret'.name)} :
                /\ config_ret'.value = IF index = 0 THEN NaN ELSE value_pool[index]
                /\ UNCHANGED << value_pool, modification_cnt >>]_vars

\* C18: set() accepts a value for a parameter exactly when the value is finite
\* and, for a Bool, is 0 or 1; for an Int, is an integer with |value| < 2^24
\* within min..max; for a Float, is within min..max.  Every other value fails
\* with -EINVAL.
C18_AcceptedIffValid ==
    (config_ret.op = "set" /\ indexByName(config_ret.name) # 0) =>
        /\ (config_ret.val = 0) <=>
                SpecValid(Params[indexByName(config_ret.name)], config_ret.value)
        /\ (config_ret.val = -EINVAL) <=>
                ~SpecValid(Params[indexByName(config_ret.name)], config_ret.value)

\* C19: init() returns LayoutMismatch with the defaults when the stored layout
\* hash differs from the hash of the registered names; Restored with the stored
\* values, each invalid one replaced by its default, when the hash and the CRC
\* of the stored values match; CrcMismatch with the defaults when the hash
\* matches and the CRC does not.  Every value is valid when init() returns.
C19_InitOutcomes ==
    config_ret.op = "init" =>
        /\ IF g_storage.layout_hash # layout_hash
           THEN config_ret.val = InitCodeLayoutMismatch /\ value_pool = Defaults
           ELSE IF g_storage.crc = crc32(PoolBytes(g_storage.pool))
           THEN /\ config_ret.val = InitCodeRestored
                /\ value_pool = SpecValidated(g_storage.pool)
           ELSE config_ret.val = InitCodeCRCMismatch /\ value_pool = Defaults
        /\ \A i \in 1..num_params : SpecValid(Params[i], value_pool[i])

\* The call of the storage that each step of an attempt of save() makes.
SaveCallAt(stage) ==
    IF stage = "save_erase" THEN [call |-> "erase", offset |-> 0, data |-> << >>]
    ELSE IF stage = "save_hash" THEN [call |-> "write", offset |-> 0, data |-> layout_hash]
    ELSE IF stage = "save_crc"
    THEN [call |-> "write", offset |-> 4, data |-> crc32(PoolBytes(value_pool))]
    ELSE [call |-> "write", offset |-> 8, data |-> value_pool]

\* The step that follows each step of an attempt of save().
SaveStageAfter(stage) ==
    IF stage = "save_erase" THEN "save_hash"
    ELSE IF stage = "save_hash" THEN "save_crc"
    ELSE IF stage = "save_crc" THEN "save_values"
    ELSE "idle"

\* C20: an attempt of save() erases, writes the layout hash at 0, the CRC of
\* the values at 4 and the values at 8, in this order; an error at a step
\* abandons the attempt and the next one starts from erase; there are at most
\* three attempts; save() returns 0 when an attempt has done its four steps
\* and otherwise the error of the step that failed last.  No value and not the
\* modification counter changes from the call of save() to its return.  The
\* steps of save() in task t are those that move it on while the processor
\* runs.
C20_SaveAttempts ==
    [][\A t \in Tasks :
        /\ config_task'[t].pc \in SaveStages => config_task'[t].attempt < 3
        /\ (config_task[t].pc = "idle" /\ config_task'[t].pc \in SaveStages) =>
                /\ config_task'[t].pc = "save_erase"
                /\ config_task'[t].attempt = 0
                /\ UNCHANGED << value_pool, modification_cnt, g_storage >>
        /\ (config_task[t].pc \in SaveStages /\ config_task'[t] # config_task[t] /\ frozen') =>
                /\ UNCHANGED << value_pool, modification_cnt >>
                /\ [call |-> config_call'.call, offset |-> config_call'.offset,
                    data |-> config_call'.data] = SaveCallAt(config_task[t].pc)
                /\ IF config_call'.result = 0
                   THEN /\ config_task'[t].pc = SaveStageAfter(config_task[t].pc)
                        /\ config_task[t].pc # "save_values" =>
                                /\ config_task'[t].attempt = config_task[t].attempt
                                /\ config_ret'.op = "none"
                        /\ config_task[t].pc = "save_values" =>
                                /\ config_ret'.op = "save"
                                /\ config_ret'.task = t
                                /\ config_ret'.val = 0
                                /\ g_storage' = [layout_hash |-> layout_hash,
                                                 crc |-> crc32(PoolBytes(value_pool)),
                                                 pool |-> value_pool]
                   ELSE IF config_task[t].attempt < 2
                   THEN /\ config_task'[t].pc = "save_erase"
                        /\ config_task'[t].attempt = config_task[t].attempt + 1
                        /\ config_ret'.op = "none"
                   ELSE /\ config_task'[t].pc = "idle"
                        /\ config_ret'.op = "save"
                        /\ config_ret'.task = t
                        /\ config_ret'.val = config_call'.result
                        /\ config_ret'.val # 0]_vars

\* The third attempt of a save() of values that were set, after two attempts
\* that were abandoned, is about to write the values.
C20_Witness ==
    \E t \in Tasks :
        /\ config_task[t].pc = "save_values"
        /\ config_task[t].attempt = 2
        /\ modification_cnt > 0
        /\ g_storage.layout_hash = layout_hash
        /\ g_storage.crc = crc32(PoolBytes(value_pool))


\* A store that configSave() of this registry wrote and nothing changed since:
\* the layout hash of the registered names, values that configSet() accepts
\* or init() left, and their CRC.
SavedByThisRegistry(stored) ==
    /\ stored = Saved(stored.pool)
    /\ \A i \in 1..num_params : isValid(Params[i], stored.pool[i])

\* C21: after successful set() calls and a successful save(), a restart with
\* the same registry and init() on the storage as save() left it return
\* Restored, with every parameter at the value it had when save() was called.
\* The reads of the storage by init() give what the storage holds.
C21_RoundTrip ==
    /\ (config_ret.op = "save" /\ config_ret.val = 0) => SavedByThisRegistry(g_storage)
    /\ (config_ret.op = "save" /\ config_ret.val = 0) => g_storage.pool = value_pool
    /\ (config_ret.op = "init" /\ config_call.result = 0 /\ SavedByThisRegistry(g_storage)) =>
            /\ config_ret.val = InitCodeRestored
            /\ value_pool = g_storage.pool

\* After set("f", 1), save() and a restart, init() has returned Restored with
\* the three values 1, 1, 1, which no store held at the first start.
C21_Witness ==
    /\ config_ret.op = "init"
    /\ config_ret.val = InitCodeRestored
    /\ modification_cnt = 0
    /\ value_pool = << F(2), F(2), F(2) >>
    /\ g_storage.pool = << F(2), F(2), F(2) >>


\* Registries whose sets of names differ from the registered one: "b", "x" and
\* "bi", "n", "f".
OtherRegistries == {<< [name |-> << 98 >>], [name |-> << 120 >>] >>, RegroupedNames}

\* C22: a registry with another set of names has another layout hash, and
\* init() on a store that was saved with such a registry returns
\* LayoutMismatch with every parameter at its default, no stored value adopted.
C22_LayoutHashDiscriminates ==
    config_ret.op = "init" =>
        \A registry \in OtherRegistries :
            /\ {registry[i].name : i \in 1..Len(registry)}
                    # {Params[i].name : i \in 1..num_params}
            /\ g_storage.layout_hash = LayoutHashOf(registry, Len(registry)) =>
                    /\ LayoutHashOf(registry, Len(registry)) # layout_hash
                    /\ config_ret.val = InitCodeLayoutMismatch
                    /\ value_pool = Defaults


SetSucceeds == config_ret'.op = "set" /\ config_ret'.val = 0
EraseSucceeds == config_ret'.op = "erase" /\ config_ret'.val >= 0

\* getModificationCounter() returns the counter and needs no mutex.
CounterRead ==
    config_ret'.op = "counter" =>
        /\ config_ret'.val = modification_cnt
        /\ UNCHANGED << modification_cnt, config_mutex >>

GetReturnedRawValue ==
    /\ config_ret.op = "get"
    /\ indexByName(config_ret.name) # 0
    /\ \E t \in Tasks \ {config_ret.task} : config_task[t].pc = "init_crc"
    /\ config_ret.value = g_storage.pool[indexByName(config_ret.name)]

\* C25: init() and save() read and write the values and call the backend
\* with the mutex of the store held, so a get() in another task never returns
\* a value that init() has read from the storage and not yet CRC-checked and
\* validated.
C25_InitUnderMutex ==
    /\ \A t \in Tasks :
            config_task[t].pc \in InitStages \cup SaveStages => config_mutex.owner = t
    /\ ~GetReturnedRawValue


(***************************************************************************)
(* The firmware update node against its specification.                     *)
(***************************************************************************)

\* The payloads of the three allocation requests for a unique ID of 16
\* bytes: 6, 6 and 4 of its bytes, the first-part flag in the first only.
ThreeRequests(unique_id) ==
    << << 1 >> \o SubSeq(unique_id, 1, 6),
       << 0 >> \o SubSeq(unique_id, 7, 12),
       << 0 >> \o SubSeq(unique_id, 13, 16) >>

\* The node runs the allocation protocol with an allocator that answers each
\* request with the prefix of the unique ID it has received.
AllocatingWithAllocator ==
    /\ can_bus.reliable
    /\ node.pc \in {"alloc", "alloc_poll"}

\* C26: with an allocator that answers each allocation request by echoing
\* the prefix of the unique ID it has received, the node sends at most three
\* requests, carrying 6, 6 and 4 bytes of the unique ID with the first-part
\* flag in the first only; the offset into the unique ID is 0, 6 and 12 when
\* it waits to send them; and once the third response is in, the node ID is
\* the one carried in the upper seven bits of its first byte, 125.
C26_AllocationConverges ==
    /\ AllocatingWithAllocator =>
        /\ Len(can_bus.requests) <= 3
        /\ \A i \in 1..Len(can_bus.requests) :
                can_bus.requests[i] = Transfer("broadcast", NodeIDAllocationDataTypeID, 0,
                                          ThreeRequests(node.unique_id)[i])
        /\ (node.pc = "alloc_poll" /\ can_bus.pending = << >> /\ node.local_node_id = 0) =>
                /\ Len(can_bus.requests) < 3
                /\ node.node_id_allocation_unique_id_offset_ = 6 * Len(can_bus.requests)
        /\ (Len(can_bus.requests) = 3 /\ can_bus.pending = << >>) => node.local_node_id = 125
        /\ node.local_node_id \in {0, 125}
        /\ node.local_node_id = 125 =>
                /\ Len(can_bus.requests) = 3
                /\ can_bus.received = node.unique_id
    /\ (can_bus.reliable /\ can_bus.received # << >> /\ node.confirmed_local_node_id_ # 0) =>
            node.confirmed_local_node_id_ = 125

\* The third response has given the node the ID 125 after the requests with
\* 6, 6 and 4 bytes of the unique ID.
C26_Witness ==
    /\ AllocatingWithAllocator
    /\ node.local_node_id = 125
    /\ Len(can_bus.requests) = 3
    /\ Len(can_bus.requests[1].payload) = 7
    /\ Len(can_bus.requests[3].payload) = 5
    /\ ~reboot_request_flag


\* In this step libcanard hands the node a request of the data type, other
\* than the transfer it has handed over last.
RequestReceived(data_type_id) ==
    /\ can_bus'.delivered # can_bus.delivered
    /\ can_bus'.delivered.transfer_type = "request"
    /\ can_bus'.delivered.data_type_id = data_type_id

\* A response of the data type to the node is among the transfers queued.
ResponseQueued(queued, data_type_id, destination_node_id) ==
    \E i \in 1..Len(queued) :
        /\ queued[i].transfer_type = "response"
        /\ queued[i].data_type_id = data_type_id
        /\ queued[i].source_node_id = destination_node_id

\* C27: when a BeginFirmwareUpdate request arrives while the node waits with
\* no server known, the node records the server node ID and the file path of
\* the request and queues the acknowledgement, so that the wait ends.
C27_BeginFirmwareUpdateRecorded ==
    [][(/\ node.pc = "wait"
        /\ node.remote_server_node_id_ = 0
        /\ RequestReceived(BeginFirmwareUpdateDataTypeID)) =>
            /\ node'.remote_server_node_id_ = can_bus'.delivered.payload[1]
            /\ node'.firmware_file_path_ = Tail(can_bus'.delivered.payload)
            /\ ResponseQueued(node'.queued, BeginFirmwareUpdateDataTypeID,
                              can_bus'.delivered.source_node_id)]_vars

\* The node that was started with no server known never gets to upgradeApp().
NoUpgradeOnRequest ==
    (node.pc = "upgrade") => (node.result = 0 /\ node.remote_server_node_id_ = 10
                              /\ can_bus.delivered.data_type_id # BeginFirmwareUpdateDataTypeID)


\* The FileRead request for the file at the offset, below 256, to the server:
\* the offset in 40 bits, the least significant byte first, then the path.
FileReadRequest(server_node_id, path, offset) ==
    Transfer("request", FileReadDataTypeID, server_node_id, << offset, 0, 0, 0, 0 >> \o path)

\* C28: download(sink) of the node reads the file with FileRead requests to
\* the server, one at a time and the first for offset 0, and returns 0 at the
\* empty payload, -30005 at an error of the file system of the server, or the
\* error of the sink: whatever it returns, when it returns it has queued the
\* request for offset 0 of the file.
C28_DownloadReadsFile ==
    [][(node.download = << >> /\ node'.download # << >>) =>
            \E i \in 1..Len(node'.queued) :
                node'.queued[i] = FileReadRequest(node.remote_server_node_id_,
                                                  node.firmware_file_path_, 0)]_vars


\* 0xACCE551B1E as the five bytes of a RestartNode request, the least
\* significant first.
MagicOnWire == << 30, 27, 85, 206, 172 >>

\* The response 1 << 7 to a RestartNode request is the last transfer queued.
RestartAcknowledged(queued, destination_node_id) ==
    /\ queued # << >>
    /\ queued[Len(queued)]
            = Transfer("response", RestartNodeDataTypeID, destination_node_id, << 128 >>)

\* C29: a RestartNode request whose magic number is 0xACCE551B1E makes the
\* node queue the positive response and request the reboot; a RestartNode
\* request with another magic number changes neither the flag nor the queue;
\* no other step of the node sets the flag; and the flag, once set, stays.
C29_RestartOnMagic ==
    [][/\ RequestReceived(RestartNodeDataTypeID) =>
            IF can_bus'.delivered.payload = MagicOnWire
            THEN /\ reboot_request_flag'
                 /\ RestartAcknowledged(node'.queued, can_bus'.delivered.source_node_id)
            ELSE /\ reboot_request_flag' = reboot_request_flag
                 /\ node'.queued = node.queued
       /\ (reboot_request_flag' /\ ~reboot_request_flag /\ << node, can_bus >>' # << node, can_bus >>) =>
            /\ RequestReceived(RestartNodeDataTypeID)
            /\ can_bus'.delivered.payload = MagicOnWire
       /\ reboot_request_flag => reboot_request_flag']_vars

\* The node waits for a request, has answered a GetNodeInfo request, has then
\* received RestartNode with the magic number, has queued the positive
\* response and has set the flag.
C29_Witness ==
    /\ node.pc = "wait"
    /\ can_bus.delivered = Transfer("request", RestartNodeDataTypeID, 10, MagicOnWire)
    /\ reboot_request_flag
    /\ node.queued = << Transfer("response", GetNodeInfoDataTypeID, 10, << >>),
                        Transfer("response", RestartNodeDataTypeID, 10, << 128 >>) >>


\* C30: once a reboot has been requested the thread of the node terminates,
\* whatever the driver returns: each of its loops sees the flag after
\* finitely many iterations and ends.
C30_TerminatesOnReboot == reboot_request_flag ~> (node.pc = "terminated")


\* The candidates of the bit rate detection in their order.
Candidates == << 1000000, 500000, 250000, 125000, 100000 >>

\* This step is an iteration of the loop of the bit rate detection.
DetectionIteration ==
    /\ node.pc = "bit_rate"
    /\ node'.current_bit_rate_index # node.current_bit_rate_index
    /\ node'.detection # << >>

\* C31: the bit rate detection starts with 1000000 and tries 500000, 250000,
\* 125000, 100000 after it, and 1000000 again; where init() succeeds the
\* driver is in Silent mode at the candidate; the candidate is adopted iff
\* init() succeeded and receive() returned more than 0, anything else only
\* moves on to the next candidate; the detection ends only with a bit rate
\* adopted or a reboot requested; a bit rate adopted is one of the five
\* candidates, and a bit rate known is never changed.
C31_BitRateDetection ==
    [][/\ DetectionIteration =>
            \E k \in {node.current_bit_rate_index + 1} :
                /\ node.detection = << >> => k = 1
                /\ node'.current_bit_rate_index = k % 5
                /\ node'.detection[1] >= 0 =>
                        /\ can_bus'.mode = "Silent"
                        /\ can_bus'.bit_rate = Candidates[k]
                /\ node'.can_bus_bit_rate_ =
                        IF Len(node'.detection) = 2 /\ node'.detection[1] >= 0
                                                     /\ node'.detection[2] > 0
                        THEN Candidates[k] ELSE 0
                /\ node'.pc = "bit_rate"
       /\ (node.pc = "bit_rate" /\ node'.pc # "bit_rate") =>
                (node.can_bus_bit_rate_ # 0 \/ reboot_request_flag)
       /\ node.can_bus_bit_rate_ # 0 => node'.can_bus_bit_rate_ = node.can_bus_bit_rate_
       /\ node'.can_bus_bit_rate_ # node.can_bus_bit_rate_ =>
                \E k \in 1..5 : node'.can_bus_bit_rate_ = Candidates[k]]_vars

\* 125000, the fourth candidate, has been adopted after three candidates
\* that were not.
C31_Witness ==
    /\ node.pc = "bit_rate"
    /\ node.can_bus_bit_rate_ = 125000
    /\ node.detection = << 0, 1 >>
    /\ node.current_bit_rate_index = 4
    /\ can_bus.mode = "Silent"
    /\ can_bus.bit_rate = 125000


\* In this step the node without a node ID is handed an allocation broadcast,
\* other than the transfer it was handed last.
AllocationBroadcastReceived ==
    /\ node.local_node_id = 0
    /\ can_bus'.delivered # can_bus.delivered
    /\ can_bus'.delivered.transfer_type = "broadcast"
    /\ can_bus'.delivered.data_type_id = NodeIDAllocationDataTypeID

\* The bytes are the first bytes of the unique ID.
PrefixOfUniqueID(echoed, unique_id) ==
    /\ Len(echoed) <= Len(unique_id)
    /\ \A i \in 1..Len(echoed) : echoed[i] = unique_id[i]

\* C32: for an allocation broadcast handed to the node that has no node ID:
\* from an anonymous node it only moves the deadline of the next request to
\* 600000..999999 us from now; with echoed bytes that differ from the unique
\* ID it sets the offset to 0, assigns nothing and leaves the deadline at
\* 600000..999999 us; with a matching prefix of less than 16 bytes it sets the
\* offset to the length of the prefix and the deadline to 0..399999 us from
\* now; with all 16 bytes it makes the upper seven bits of the first byte the
\* node ID.
C32_AllocationResponse ==
    [][AllocationBroadcastReceived =>
        \E echoed \in {SubSeq(can_bus'.delivered.payload, 2, Len(can_bus'.delivered.payload))} :
            IF can_bus'.delivered.source_node_id = 0
            THEN /\ node'.send_deadline >= 600000 /\ node'.send_deadline < 1000000
                 /\ node'.local_node_id = 0
            ELSE IF ~PrefixOfUniqueID(echoed, node.unique_id)
            THEN /\ node'.node_id_allocation_unique_id_offset_ = 0
                 /\ node'.local_node_id = 0
                 /\ node'.send_deadline >= 600000 /\ node'.send_deadline < 1000000
            ELSE IF Len(echoed) < 16
            THEN /\ node'.node_id_allocation_unique_id_offset_ = Len(echoed)
                 /\ node'.local_node_id = 0
                 /\ node'.send_deadline >= 0 /\ node'.send_deadline < 400000
            ELSE /\ node'.local_node_id = can_bus'.delivered.payload[1] \div 2
                 /\ node'.send_deadline >= 600000 /\ node'.send_deadline < 1000000]_vars

\* The offset into the unique ID and the size of the request made from it
\* satisfy the assertions of performDynamicNodeIDAllocation().
RequestAssertions(offset) ==
    /\ offset < 16
    /\ \E uid_size \in {IF 16 - offset > 6 THEN 6 ELSE 16 - offset} :
        /\ uid_size >= 1
        /\ uid_size <= 6
        /\ uid_size + offset <= 16

\* C39: no assertion of the allocation code fails, whatever the length of
\* the payload of an allocation broadcast from a node with a node ID, 0 to 18
\* bytes: the loop that copies the unique ID stays within the 16 bytes of
\* received_unique_id, the offset stored is below 16, and every request has 1
\* to 6 bytes of the unique ID that end within its 16 bytes.
C39_AllocationAssertions ==
    /\ node.pc # "halted"
    /\ RequestAssertions(node.node_id_allocation_unique_id_offset_)


\* C33: the mode of the node is SoftwareUpdate exactly while main() is in
\* its call of upgradeApp(); main() makes that call only with a server known;
\* and when the call returns the health is Error if the result is negative and
\* Ok if not, the mode is Maintenance, the server node ID is 0 and the path is
\* empty, so that the next thing main() does without a reboot request is to
\* wait for a request.
C33_ModeAndHealth ==
    /\ []((node.pc = "upgrade") <=> (node.node_mode_ = "SoftwareUpdate"))
    /\ [][/\ (node.pc # "upgrade" /\ node'.pc = "upgrade") =>
                /\ node.remote_server_node_id_ # 0
                /\ node'.node_health_ = "Ok"
          /\ (node.pc = "upgrade" /\ node'.pc # "upgrade") =>
                /\ node'.node_health_ = (IF node'.result < 0 THEN "Error" ELSE "Ok")
                /\ node'.node_mode_ = "Maintenance"
                /\ node'.remote_server_node_id_ = 0
                /\ node'.firmware_file_path_ = << >>
                /\ node'.pc = "main"
          /\ (node.pc = "main" /\ node.remote_server_node_id_ = 0 /\ node'.pc # "main") =>
                node'.pc \in {"wait", "terminated"}]_vars

\* upgradeApp() has returned the -1 of download(): the health is Error, the
\* mode Maintenance, and the node waits for a request.
C33_Witness ==
    /\ node.pc = "wait"
    /\ node.download = << -1 >>
    /\ node.result = -1
    /\ node.node_health_ = "Error"
    /\ node.node_mode_ = "Maintenance"
    /\ node.remote_server_node_id_ = 0
    /\ node.firmware_file_path_ = << >>


\* The result and the size of the read of this step of the scan.
ReadResult == backend_call'.result
ReadSize == backend_call'.arg[2]

\* C34: the scan of a storage whose reads fail or return short from some
\* offset on ends: the walk moves on by 8 bytes at a time and ends at the
\* first read of a signature or a descriptor that does not return all of its
\* 8 or 32 bytes; a read of a CRC loop either moves i on by the bytes read,
\* more than none, or ends the loop; and no read asks for more than 1024
\* bytes.
C34_ScanTerminates ==
    /\ <>(scanner.pc = "done")
    /\ [][/\ ReadSize <= 1024
          /\ scanner.pc \in {"signature", "descriptor"} =>
                /\ ReadSize = (IF scanner.pc = "signature" THEN 8 ELSE 32)
                /\ ReadResult # ReadSize => scanner'.pc = "done"
                /\ scanner'.pc # "done" =>
                        \/ scanner'.offset = scanner.offset /\ scanner'.pc # "signature"
                        \/ scanner'.offset = scanner.offset + 8 /\ scanner'.pc = "signature"
          /\ scanner.pc \in {"crc_head", "crc_rest"} =>
                /\ ReadSize >= 1
                /\ scanner'.pc = scanner.pc =>
                        ReadResult >= 1 /\ scanner'.i = scanner.i + ReadResult
                /\ ReadResult <= 0 => scanner'.pc # scanner.pc
                /\ scanner'.pc = "signature" => scanner'.offset = scanner.offset + 8
                /\ scanner'.pc # "signature" => scanner'.offset = scanner.offset]_vars

\* The scan has returned the image that is longer than rom_buffer_ after a
\* read of 1024 bytes that returned 512.
C34_Witness ==
    /\ scanner.pc = "done"
    /\ scanner.result.second
    /\ scanner.result.offset = 0
    /\ scanner.faults = 1
    /\ scanner.checked[1].image_size = 1096
    /\ backend_call.arg[1] + backend_call.arg[2] = 1096
    /\ backend_call.arg[2] < 1024

(***************************************************************************)
(* The controller as the other tasks see it, and the sink of an upgrade.   *)
(***************************************************************************)
\* The states in which an application has been found.
StatesWithApp == {"BootDelay", "BootCancelled", "ReadyToBoot"}

\* C35: whenever the controller mutex is free, the cached app info is present
\* iff the stored state is BootDelay, BootCancelled or ReadyToBoot, and absent
\* iff it is NoAppToBoot or AppUpgradeInProgress; getState() never returns
\* ReadyToBoot without a cached app info.
C35_AppInfoMatchesState ==
    /\ mutex_ = MutexFree =>
        /\ cached_app_info_ # << >> <=> state_ \in StatesWithApp
        /\ cached_app_info_ = << >> <=> state_ \in {"NoAppToBoot", "AppUpgradeInProgress"}
    /\ ret.op = "getState" /\ ret.val = "ReadyToBoot" => cached_app_info_ # << >>

\* getState() has returned ReadyToBoot to a task while the other task is in
\* the download of a later upgrade: the mutex is free, the cache is empty.
C35_Witness ==
    /\ mutex_ = MutexFree
    /\ state_ = "AppUpgradeInProgress"
    /\ cached_app_info_ = << >>
    /\ \E t \in Tasks : pc[t] = "download" /\ sink[t].chunks >= 1
    /\ ret.op = "getState"

\* The stages of upgradeApp() between the release of the mutex before the
\* download and the assertion of the finalization stage.
DownloadStages == {"download", "handleNextDataChunk", "write", "finalize"}

\* C36: the assertion state_ == AppUpgradeInProgress of the finalization stage
\* of upgradeApp() never fails: from the release of the mutex before the
\* download to the assertion, the stored state is AppUpgradeInProgress,
\* whatever the other tasks call meanwhile.
C36_UpgradeAssertion ==
    /\ assert_failed = FALSE
    /\ \A t \in Tasks : pc[t] \in DownloadStages => state_ = "AppUpgradeInProgress"

\* The assertion has been evaluated, after a download of two chunks, and has
\* held: upgradeApp() is in backend_.endUpgrade().
C36_Witness ==
    /\ assert_failed = FALSE
    /\ \E t \in Tasks : pc[t] = "endUpgrade" /\ sink[t].chunks = MaxChunks

\* The boot delay has elapsed.
BootDelayElapsed ==
    chVTTimeElapsedSinceX(boot_delay_started_at_st_) >= TIME_MS2I(boot_delay_msec_)

\* Task t makes the state check of upgradeApp() in this step.
UpgradeChecked(t) == pc[t] = "upgradeApp" /\ pc'[t] # "upgradeApp"

\* C37: the elapsed boot delay takes effect through getState() only.  An
\* upgradeApp() that finds the stored state BootDelay after the delay has
\* elapsed is accepted and sets AppUpgradeInProgress; one that finds
\* ReadyToBoot returns -ErrInvalidState; the passing of time alone does not
\* change the stored state, and ReadyToBoot is left through cancelBoot() only.
C37_DelayThroughGetStateOnly ==
    [][/\ \A t \in Tasks : UpgradeChecked(t) =>
            /\ state_ = "BootDelay" /\ BootDelayElapsed =>
                  state_' = "AppUpgradeInProgress" /\ pc'[t] = "beginUpgrade"
            /\ state_ = "ReadyToBoot" =>
                  /\ ret' = [task |-> t, op |-> "upgradeApp", val |-> -ErrInvalidState]
                  /\ state_' = "ReadyToBoot"
       /\ now' # now => state_' = state_
       /\ state_ = "BootDelay" /\ state_' = "ReadyToBoot" /\ BootDelayElapsed =>
            \E t \in Tasks : pc[t] \in {"getState", "requestBoot"}
       /\ state_ = "ReadyToBoot" /\ state_' # "ReadyToBoot" =>
            \E t \in Tasks : pc[t] = "cancelBoot"]_vars

\* upgradeApp() has been called after a boot delay of 1 ms has elapsed and
\* finds the stored state BootDelay.
C37_Witness ==
    /\ state_ = "BootDelay"
    /\ boot_delay_msec_ = 1
    /\ BootDelayElapsed
    /\ \E t \in Tasks : pc[t] = "upgradeApp"

\* Task t is in backend_.write() and the call returns in this step.
WriteReturned(t) == pc[t] = "write" /\ pc'[t] # "write"

\* C38: the offset_ of a Sink starts at 0; backend_.write() is called at
\* offset_; offset_ advances by size when the write returns size and is left
\* alone when it returns a negative error or another count, and nothing else
\* changes it during the download.
C38_SinkOffset ==
    [][\A t \in Tasks :
        /\ pc[t] = "beginUpgrade" /\ pc'[t] = "download" => sink'[t].offset_ = 0
        /\ WriteReturned(t) =>
            /\ backend_call'.arg[1] = sink[t].offset_
            /\ sink'[t].offset_ =
                    IF backend_call'.result = Len(sink[t].data)
                    THEN sink[t].offset_ + Len(sink[t].data)
                    ELSE sink[t].offset_
        /\ pc[t] \in {"download", "handleNextDataChunk"} =>
            sink'[t].offset_ = sink[t].offset_]_vars

(***************************************************************************)
(* The logical watchdogs and the reloads of the hardware watchdog.         *)
(***************************************************************************)
\* IWDG->KR = KR_KEY_RELOAD is written in this step.
Reloaded == \E i \in DOMAIN watchdog'.kr : watchdog'.kr[i] = KR_KEY_RELOAD

\* watchdogReset() is called and returns in this step.
ResetReturned == watchdog'.ret.op = "watchdogReset"

\* watchdogReset() is called in this step and writes IWDG->KR = KR_KEY_RELOAD.
ResetReloaded == ResetReturned /\ watchdog'.kr = << KR_KEY_RELOAD >>

\* Thread t takes a new ID in this step, in the critical section of
\* watchdogCreate().
IDTaken(t) == watchdog.caller[t].pc = "idle" /\ watchdog'.caller[t].pc = "compare"

\* The bits of _mask set in this step: that of the watchdog that is reset,
\* that of the watchdog that is created.
BitsSet ==
    {id \in BitsBelow(MAX_NUM_WATCHDOGS) :
        \/ ResetReturned /\ watchdog'.ret.val = id
        \/ \E t \in Tasks : IDTaken(t) /\ watchdog'.caller[t].new_id = id}

\* Every logical watchdog has its bit of _mask set, or is the one with this id.
AllFed(id) == \A i \in BitsBelow(watchdog.num_watchdogs) : i = id \/ i \in watchdog.mask

\* The IDs are handed out in order, each once, at most MAX_NUM_WATCHDOGS of
\* them, and watchdogCreate() returns the ID it took, or -1 and takes none.
CreateRules ==
    /\ \A t \in Tasks :
        /\ IDTaken(t) =>
            /\ watchdog.num_watchdogs < MAX_NUM_WATCHDOGS
            /\ watchdog'.caller[t].new_id = watchdog.num_watchdogs
            /\ watchdog'.num_watchdogs = watchdog.num_watchdogs + 1
        /\ watchdog'.ret = [task |-> t, op |-> "watchdogCreate", val |-> -1] =>
            /\ watchdog'.num_watchdogs = watchdog.num_watchdogs
            /\ watchdog'.mask = watchdog.mask
        /\ watchdog'.ret.task = t /\ watchdog'.ret.op = "watchdogCreate"
                /\ watchdog'.ret.val # -1 =>
            /\ watchdog'.ret.val = watchdog.caller[t].new_id
            /\ watchdog'.ret.val \in BitsBelow(watchdog.num_watchdogs)
            /\ watchdog'.ret.val \notin ReturnedIDs(watchdog)
    /\ (\A t \in Tasks : ~IDTaken(t)) => watchdog'.num_watchdogs = watchdog.num_watchdogs
    /\ watchdog.num_watchdogs >= MAX_NUM_WATCHDOGS => \A t \in Tasks : ~IDTaken(t)

\* _mask holds the watchdogs reset or created since watchdogReset() last
\* reloaded the hardware watchdog; watchdogReset() reloads it at the moment
\* every watchdog has its bit set, and clears _mask; a watchdog whose bit is
\* not set and which is not reset in this step prevents that reload.
ResetRules ==
    /\ watchdog'.mask = (IF ResetReloaded THEN {} ELSE watchdog.mask \cup BitsSet)
    /\ ResetReloaded => AllFed(watchdog'.ret.val)
    /\ ResetReturned /\ AllFed(watchdog'.ret.val) => ResetReloaded
    /\ \A id \in BitsBelow(watchdog.num_watchdogs) :
            id \notin watchdog.mask /\ ~(ResetReturned /\ watchdog'.ret.val = id) =>
                ~ResetReloaded

\* C40 as stated: at most MAX_NUM_WATCHDOGS logical watchdogs are created,
\* with the IDs 0, 1, 2... in order, and watchdogCreate() returns -1 beyond;
\* watchdogReset() reloads the hardware watchdog only when it finds every
\* logical watchdog reset or created since the previous reload, and _mask is
\* then cleared; a logical watchdog that is not reset prevents every further
\* reload of the hardware watchdog, whatever the threads call.
C40_StalledWatchdogPreventsReload ==
    /\ [](watchdog.num_watchdogs <= MAX_NUM_WATCHDOGS)
    /\ [][/\ CreateRules
          /\ ResetRules
          /\ \A id \in BitsBelow(watchdog.num_watchdogs) :
                id \notin watchdog.mask /\ ~(ResetReturned /\ watchdog'.ret.val = id) =>
                    ~Reloaded]_vars

\* C40 amended: a logical watchdog that is not reset prevents every further
\* reload by watchdogReset(); the hardware watchdog is reloaded besides by
\* setTimeout(), which watchdogCreate() calls for a timeout it found longer
\* than _wdg_timeout_ms, whatever _mask holds, and which leaves _mask alone.
C40_StalledWatchdogPreventsReloadByReset ==
    /\ [](watchdog.num_watchdogs <= MAX_NUM_WATCHDOGS)
    /\ [][/\ CreateRules
          /\ ResetRules
          /\ Reloaded /\ ~ResetReloaded =>
                \E t \in Tasks :
                    /\ watchdog.caller[t].pc = "setTimeout"
                    /\ watchdog'.caller[t].pc = "store"
                    /\ watchdog'.rlr = reload_value(watchdog.caller[t].timeout_ms)]_vars

\* All MAX_NUM_WATCHDOGS watchdogs exist, watchdogReset() has reloaded the
\* hardware watchdog once, and every watchdog that is still reset has been
\* reset since: the last watchdogReset() has not reloaded it.
C40_Witness ==
    /\ watchdog.initialised
    /\ watchdog.num_watchdogs = MAX_NUM_WATCHDOGS
    /\ watchdog.mask = {id \in BitsBelow(MAX_NUM_WATCHDOGS) : Modelled(id)}
    /\ watchdog.ret.op = "watchdogReset"
    /\ watchdog.kr = << >>

====
